---- MODULE Spec2Model ----
(***************************************************************************)
(* Model of the attendance firmware: the data store (data_manager.py),     *)
(* the button-driven session state machine (main.py) and the BLE GATT      *)
(* server with its chunk reassembly (ble_server.py).                       *)
(*                                                                         *)
(* Python values are tagged records [t |-> type, v |-> value] so that the  *)
(* isinstance checks of the validators can be evaluated.  A str is         *)
(* represented by its UTF-8 byte sequence.  Class ids are strings in every *)
(* input, as in the data model.                                            *)
(***************************************************************************)
EXTENDS Integers, Sequences, FiniteSets, TLC

VARIABLES
    classes_data,           \* DataManager.classes_data
    attendance_data,        \* DataManager.attendance_data
    classes_file,           \* contents of Config.CLASSES_FILE
    attendance_file,        \* contents of Config.ATTENDANCE_FILE
    current_state,          \* AttendanceSystem.current_state
    selected_class_index,   \* AttendanceSystem.selected_class_index
    current_student_index,  \* AttendanceSystem.current_student_index
    attendance_session,     \* AttendanceSystem.attendance_session
    marks,                  \* PRESENT/ABSENT presses since the session began
    connected,              \* AttendanceBLEServer.connected
    conn_handle,            \* AttendanceBLEServer.conn_handle
    rx_buffers,             \* AttendanceBLEServer.rx_buffers
    tx_payload,             \* the response handed to _send_chunked_response
    tx_chunks,              \* the chunks it passed to gatts_write, not yet fed back
    rx_whole,               \* a byte string a peer writes, and how far it has got
    rx_pos,
    delivered,              \* messages handed to _process_complete_message so far
    pc,                     \* position of the main loop inside a button handler
    faults,                 \* storage writes that have failed so far
    last                    \* the most recent operation, its input and its outcome

store_vars == <<classes_data, attendance_data, classes_file, attendance_file>>
ui_vars == <<current_state, selected_class_index, current_student_index,
             attendance_session, marks>>
ble_vars == <<connected, conn_handle, rx_buffers>>
codec_vars == <<tx_payload, tx_chunks, rx_whole, rx_pos, delivered>>
vars == <<classes_data, attendance_data, classes_file, attendance_file,
          current_state, selected_class_index, current_student_index,
          attendance_session, marks, connected, conn_handle, rx_buffers,
          tx_payload, tx_chunks, rx_whole, rx_pos, delivered, pc, faults, last>>

(***************************************************************************)
(* Python / JSON values                                                    *)
(***************************************************************************)
None == [t |-> "null", v |-> "None"]
JInt(n) == [t |-> "int", v |-> n]
JStr(s) == [t |-> "str", v |-> s]
JBool(b) == [t |-> "bool", v |-> b]
JList(s) == [t |-> "list", v |-> s]
JDict(f) == [t |-> "dict", v |-> f]

EmptyDict == [k \in {} |-> None]

\* isinstance(x, int): bool is a subclass of int
IsInstanceInt(x) == x.t \in {"int", "bool"}
IsInstanceStr(x) == x.t = "str"
IsInstanceBool(x) == x.t = "bool"
IsInstanceList(x) == x.t = "list"
IsInstanceDict(x) == x.t = "dict"

\* dict[key] = value
DictSet(d, key, value) == [k \in DOMAIN d \cup {key} |-> IF k = key THEN value ELSE d[k]]
\* del dict[key]
DictDel(d, key) == [k \in DOMAIN d \ {key} |-> d[k]]

(***************************************************************************)
(* Files                                                                   *)
(***************************************************************************)
FileAbsent == [kind |-> "absent"]
FileCorrupt == [kind |-> "corrupt"]

\* The keys of a Python dict are written as strings here, and a file holds the
\* document that json.load reads back from it.  The key that is the int 7 is
\* written IntKey; json.dump writes a key that is an int as its decimal
\* numeral, which json.load reads back as a str.
IntKey == "int 7"
JsonKey(key) == IF key = IntKey THEN "7" ELSE key

\* the value that is the key
KeyValue(key) == IF key = IntKey THEN JInt(7) ELSE JStr(key)

\* a dict whose keys the program computes: the attendance table
IsTable(obj) == DOMAIN obj # {"t", "v"}

\* json.dump, read back.  When the int and its numeral are both keys the
\* document has the member twice and json.load keeps the later one: that of
\* the int, which save_attendance sets in a table it has just loaded.
JsonDump(obj) ==
    [kind |-> "json",
     doc |-> IF IsTable(obj)
             THEN [k \in {JsonKey(key) : key \in DOMAIN obj} |->
                        IF k = JsonKey(IntKey) /\ IntKey \in DOMAIN obj
                        THEN obj[IntKey]
                        ELSE obj[k]]
             ELSE obj]

\* What a "with open(FILE, 'w') as f: json.dump(obj, f)" can do: succeed; fail in
\* open() and leave the file alone; or fail after open() truncated the file,
\* leaving a prefix of the document behind.
WriteOutcomes == {"ok", "open_fail", "partial"}

WriteFile(file, obj, wr) ==
    CASE wr = "ok" -> [raised |-> FALSE, file |-> JsonDump(obj)]
      [] wr = "open_fail" -> [raised |-> TRUE, file |-> file]
      [] OTHER -> [raised |-> TRUE, file |-> FileCorrupt]

_file_exists(file) == file.kind # "absent"

\* load_classes: the document, or [] when there is no file or it does not parse
load_classes(file) ==
    IF _file_exists(file) /\ file.kind = "json" THEN file.doc ELSE JList(<<>>)

\* load_attendance: the document, or {} when there is no file or it does not parse
load_attendance(file) ==
    IF _file_exists(file) /\ file.kind = "json" THEN file.doc ELSE EmptyDict

_validate_student_data(student_data) ==
    /\ IsInstanceDict(student_data)
    /\ {"roll", "name"} \subseteq DOMAIN student_data.v
    /\ IsInstanceInt(student_data.v.roll)
    /\ IsInstanceStr(student_data.v.name)

_validate_class_data(class_data) ==
    /\ IsInstanceDict(class_data)
    /\ {"id", "name", "students"} \subseteq DOMAIN class_data.v
    /\ IsInstanceList(class_data.v.students)
    /\ \A i \in 1..Len(class_data.v.students.v) :
           _validate_student_data(class_data.v.students.v[i])

_validate_attendance_record(record) ==
    /\ IsInstanceDict(record)
    /\ {"roll", "name", "present"} \subseteq DOMAIN record.v
    /\ IsInstanceInt(record.v.roll)
    /\ IsInstanceStr(record.v.name)
    /\ IsInstanceBool(record.v.present)

(***************************************************************************)
(* DataManager: operations, as functions of the store they act on.         *)
(* Each returns the outcome and the store's new fields.                    *)
(***************************************************************************)
SaveClassesFirstOnly(mem, file, classes, wr) ==
    IF ~IsInstanceList(classes)
         \/ (Len(classes.v) > 0 /\ ~_validate_class_data(classes.v[1]))
    THEN [ok |-> FALSE, raised |-> FALSE, classes_data |-> mem, classes_file |-> file]
    ELSE LET w == WriteFile(file, classes, wr) IN
         IF w.raised
         THEN [ok |-> FALSE, raised |-> TRUE, classes_data |-> mem, classes_file |-> w.file]
         ELSE [ok |-> TRUE, raised |-> FALSE, classes_data |-> classes, classes_file |-> w.file]

save_classes(mem, file, classes, wr) ==
    IF ~IsInstanceList(classes)
    THEN [ok |-> FALSE, raised |-> FALSE, classes_data |-> mem, classes_file |-> file]
    ELSE IF \E i \in 1..Len(classes.v) : ~_validate_class_data(classes.v[i])
    THEN [ok |-> FALSE, raised |-> FALSE, classes_data |-> mem, classes_file |-> file]
    ELSE LET w == WriteFile(file, classes, wr) IN
         IF w.raised
         THEN [ok |-> FALSE, raised |-> TRUE, classes_data |-> mem, classes_file |-> w.file]
         ELSE [ok |-> TRUE, raised |-> FALSE, classes_data |-> classes, classes_file |-> w.file]

\* sum(1 for r in attendance_records if r.get('present', False))
PresentCount(records) ==
    Cardinality({i \in 1..Len(records) :
        "present" \in DOMAIN records[i].v /\ records[i].v.present.v = TRUE})

\* sum(1 for r in attendance_records if not r.get('present', False))
AbsentCount(records) ==
    Cardinality({i \in 1..Len(records) :
        ~("present" \in DOMAIN records[i].v /\ records[i].v.present.v = TRUE)})

AttendanceEntryCountsAll(class_id, attendance_records, timestamp) ==
    JDict([class_id |-> KeyValue(class_id),
           records |-> attendance_records,
           timestamp |-> JInt(timestamp),
           total_students |-> JInt(Len(attendance_records.v)),
           present_count |-> JInt(Len(attendance_records.v)),
           absent_count |-> JInt(AbsentCount(attendance_records.v))])

AttendanceEntry(class_id, attendance_records, timestamp) ==
    JDict([class_id |-> KeyValue(class_id),
           records |-> attendance_records,
           timestamp |-> JInt(timestamp),
           total_students |-> JInt(Len(attendance_records.v)),
           present_count |-> JInt(PresentCount(attendance_records.v)),
           absent_count |-> JInt(AbsentCount(attendance_records.v))])

save_attendance(mem, file, class_id, attendance_records, timestamp, wr) ==
    IF ~IsInstanceList(attendance_records)
    THEN [ok |-> FALSE, raised |-> FALSE, attendance_data |-> mem, attendance_file |-> file]
    ELSE IF \E i \in 1..Len(attendance_records.v) :
                ~_validate_attendance_record(attendance_records.v[i])
    THEN [ok |-> FALSE, raised |-> FALSE, attendance_data |-> mem, attendance_file |-> file]
    ELSE LET loaded == load_attendance(file)
             added == DictSet(loaded, class_id,
                              AttendanceEntry(class_id, attendance_records, timestamp))
             w == WriteFile(file, added, wr)
         IN  [ok |-> ~w.raised, raised |-> w.raised, attendance_data |-> added, attendance_file |-> w.file]

AttendanceNeverTaken(mem, class_id) == FALSE

AttendanceAlwaysTaken(mem, class_id) == TRUE

is_attendance_taken(mem, class_id) == class_id \in DOMAIN mem

ClearAttendanceMissingIsSuccess(mem, file, class_id, wr) ==
    IF class_id \in DOMAIN mem
    THEN LET removed == DictDel(mem, class_id)
             w == WriteFile(file, removed, wr)
         IN  [ok |-> ~w.raised, raised |-> w.raised, attendance_data |-> removed, attendance_file |-> w.file]
    ELSE [ok |-> TRUE, raised |-> FALSE, attendance_data |-> mem, attendance_file |-> file]

clear_attendance(mem, file, class_id, wr) ==
    IF class_id \in DOMAIN mem
    THEN LET removed == DictDel(mem, class_id)
             w == WriteFile(file, removed, wr)
         IN  [ok |-> ~w.raised, raised |-> w.raised, attendance_data |-> removed, attendance_file |-> w.file]
    ELSE [ok |-> FALSE, raised |-> FALSE, attendance_data |-> mem, attendance_file |-> file]

clear_all_attendance(file, wr) ==
    LET w == WriteFile(file, EmptyDict, wr)
    IN  [ok |-> ~w.raised, raised |-> w.raised, attendance_data |-> EmptyDict, attendance_file |-> w.file]

ImportNoRestore(cmem, cfile, amem, afile, doc, wr1, wr2) ==
    IF ~IsInstanceDict(doc) \/ ~({"classes", "attendance"} \subseteq DOMAIN doc.v)
    THEN [ok |-> FALSE, raised |-> FALSE, classes_data |-> cmem, classes_file |-> cfile,
          attendance_data |-> amem, attendance_file |-> afile]
    ELSE LET sc == save_classes(cmem, cfile, doc.v.classes, wr1)
             w == WriteFile(afile, doc.v.attendance.v, wr2)
         IN  [ok |-> sc.ok /\ ~w.raised, raised |-> sc.raised \/ w.raised,
              classes_data |-> sc.classes_data,
              classes_file |-> sc.classes_file,
              attendance_data |-> doc.v.attendance.v, attendance_file |-> w.file]

import_data(cmem, cfile, amem, afile, doc, wr1, wr2) ==
    IF ~IsInstanceDict(doc) \/ ~({"classes", "attendance"} \subseteq DOMAIN doc.v)
    THEN [ok |-> FALSE, raised |-> FALSE, classes_data |-> cmem, classes_file |-> cfile,
          attendance_data |-> amem, attendance_file |-> afile]
    ELSE LET sc == save_classes(cmem, cfile, doc.v.classes, wr1) IN
         IF sc.ok
         THEN LET w == WriteFile(afile, doc.v.attendance.v, wr2) IN
              IF w.raised
              THEN \* restore backup on failure: memory only
                   [ok |-> FALSE, raised |-> TRUE, classes_data |-> cmem,
                    classes_file |-> sc.classes_file,
                    attendance_data |-> amem, attendance_file |-> w.file]
              ELSE [ok |-> TRUE, raised |-> FALSE, classes_data |-> sc.classes_data,
                    classes_file |-> sc.classes_file,
                    attendance_data |-> doc.v.attendance.v, attendance_file |-> w.file]
         ELSE [ok |-> FALSE, raised |-> sc.raised, classes_data |-> cmem,
               classes_file |-> sc.classes_file,
               attendance_data |-> amem, attendance_file |-> afile]

(***************************************************************************)
(* AttendanceBLEServer: chunk reassembly and chunked responses             *)
(***************************************************************************)
chunk_size == 100

IsContinuation(b) == b >= 128 /\ b <= 191

\* Length of the UTF-8 sequence a lead byte announces; 0 for a byte that cannot lead.
SequenceLength(b) ==
    IF b < 128 THEN 1
    ELSE IF b >= 194 /\ b <= 223 THEN 2
    ELSE IF b >= 224 /\ b <= 239 THEN 3
    ELSE IF b >= 240 /\ b <= 244 THEN 4
    ELSE 0

\* The second byte of a sequence is further restricted after E0, ED, F0 and F4.
SecondByteOk(lead, b) ==
    CASE lead = 224 -> b >= 160 /\ b <= 191
      [] lead = 237 -> b >= 128 /\ b <= 159
      [] lead = 240 -> b >= 144 /\ b <= 191
      [] lead = 244 -> b >= 128 /\ b <= 143
      [] OTHER -> IsContinuation(b)

\* bytes.decode('utf-8') succeeds: every byte that is not a continuation byte
\* leads a complete, well-formed sequence, and nothing else is in the buffer.
\* When it does not, decode raises the UnicodeDecodeError that _handle_write
\* catches (the exception CPython raises, with the .start the handler prints).
CanDecode(bs) ==
    /\ Len(bs) > 0 => ~IsContinuation(bs[1])
    /\ \A i \in 1..Len(bs) :
        ~IsContinuation(bs[i]) =>
            LET n == SequenceLength(bs[i]) IN
            /\ n > 0
            /\ i + n - 1 <= Len(bs)
            /\ \A j \in 1..(n - 1) : IsContinuation(bs[i + j])
            /\ n > 1 => SecondByteOk(bs[i], bs[i + 1])
            /\ i + n <= Len(bs) => ~IsContinuation(bs[i + n])

Newline == 10
Whitespace == {9, 10, 11, 12, 13, 32}

NewlinePositions(s) == {i \in 1..Len(s) : s[i] = Newline}

\* Position of the k-th newline; 0 before the first, Len(s) + 1 after the last.
NewlineAt(s, k) ==
    IF k = 0 THEN 0
    ELSE IF k > Cardinality(NewlinePositions(s)) THEN Len(s) + 1
    ELSE CHOOSE i \in NewlinePositions(s) :
             Cardinality({j \in NewlinePositions(s) : j <= i}) = k

\* str.split('\n')
Split(s) ==
    [k \in 1..(Cardinality(NewlinePositions(s)) + 1) |->
        SubSeq(s, NewlineAt(s, k - 1) + 1, NewlineAt(s, k) - 1)]

\* str.strip()
Strip(s) ==
    IF \A i \in 1..Len(s) : s[i] \in Whitespace THEN <<>>
    ELSE SubSeq(s,
                CHOOSE i \in 1..Len(s) :
                    s[i] \notin Whitespace /\ \A j \in 1..(i - 1) : s[j] \in Whitespace,
                CHOOSE i \in 1..Len(s) :
                    s[i] \notin Whitespace /\ \A j \in (i + 1)..Len(s) : s[j] \in Whitespace)

\* rx_buffers[value_handle], created empty on first use
BufferOf(buffers, value_handle) ==
    IF value_handle \in DOMAIN buffers THEN buffers[value_handle] ELSE <<>>

HandleWriteFlushOnDecodeError(buffers, value_handle, value) ==
    LET buf == BufferOf(buffers, value_handle) \o value IN
    IF ~CanDecode(buf)
    THEN [rx_buffers |-> DictSet(buffers, value_handle, <<>>), messages |-> <<>>,
          waited |-> TRUE]
    ELSE IF NewlinePositions(buf) # {}
    THEN LET messages == Split(buf)
             complete == [i \in 1..(Len(messages) - 1) |-> Strip(messages[i])]
         IN  [rx_buffers |-> DictSet(buffers, value_handle, messages[Len(messages)]),
              messages |-> SelectSeq(complete, LAMBDA m : m # <<>>),
              waited |-> FALSE]
    ELSE [rx_buffers |-> DictSet(buffers, value_handle, buf), messages |-> <<>>,
          waited |-> FALSE]

HandleWriteNewestFirst(buffers, value_handle, value) ==
    LET buf == BufferOf(buffers, value_handle) \o value IN
    IF ~CanDecode(buf)
    THEN [rx_buffers |-> DictSet(buffers, value_handle, buf), messages |-> <<>>,
          waited |-> TRUE]
    ELSE IF NewlinePositions(buf) # {}
    THEN LET messages == Split(buf)
             complete == [i \in 1..(Len(messages) - 1) |->
                            Strip(messages[Len(messages) - i])]
         IN  [rx_buffers |-> DictSet(buffers, value_handle, messages[Len(messages)]),
              messages |-> SelectSeq(complete, LAMBDA m : m # <<>>),
              waited |-> FALSE]
    ELSE [rx_buffers |-> DictSet(buffers, value_handle, buf), messages |-> <<>>,
          waited |-> FALSE]

HandleWriteKeepsDispatched(buffers, value_handle, value) ==
    LET buf == BufferOf(buffers, value_handle) \o value IN
    IF ~CanDecode(buf)
    THEN [rx_buffers |-> DictSet(buffers, value_handle, buf), messages |-> <<>>,
          waited |-> TRUE]
    ELSE IF NewlinePositions(buf) # {}
    THEN LET messages == Split(buf)
             complete == [i \in 1..(Len(messages) - 1) |-> Strip(messages[i])]
         IN  [rx_buffers |-> DictSet(buffers, value_handle,
                                     <<Newline>> \o messages[Len(messages)]),
              messages |-> SelectSeq(complete, LAMBDA m : m # <<>>),
              waited |-> FALSE]
    ELSE [rx_buffers |-> DictSet(buffers, value_handle, buf), messages |-> <<>>,
          waited |-> FALSE]

HandleWriteDropOnDecodeError(buffers, value_handle, value) ==
    LET buf == BufferOf(buffers, value_handle) \o value IN
    IF ~CanDecode(buf)
    THEN [rx_buffers |-> DictSet(buffers, value_handle, BufferOf(buffers, value_handle)),
          messages |-> <<>>, waited |-> TRUE]
    ELSE IF NewlinePositions(buf) # {}
    THEN LET messages == Split(buf)
             complete == [i \in 1..(Len(messages) - 1) |-> Strip(messages[i])]
         IN  [rx_buffers |-> DictSet(buffers, value_handle, messages[Len(messages)]),
              messages |-> SelectSeq(complete, LAMBDA m : m # <<>>),
              waited |-> FALSE]
    ELSE [rx_buffers |-> DictSet(buffers, value_handle, buf), messages |-> <<>>,
          waited |-> FALSE]

\* _handle_write up to the calls of _process_complete_message: the buffers
\* afterwards and the messages handed on, in order.
_handle_write(buffers, value_handle, value) ==
    LET buf == BufferOf(buffers, value_handle) \o value IN
    IF ~CanDecode(buf)
    THEN \* UnicodeDecodeError: wait for more data
         [rx_buffers |-> DictSet(buffers, value_handle, buf), messages |-> <<>>,
          waited |-> TRUE]
    ELSE IF NewlinePositions(buf) # {}
    THEN LET messages == Split(buf)
             complete == [i \in 1..(Len(messages) - 1) |-> Strip(messages[i])]
         IN  [rx_buffers |-> DictSet(buffers, value_handle, messages[Len(messages)]),
              messages |-> SelectSeq(complete, LAMBDA m : m # <<>>),
              waited |-> FALSE]
    ELSE [rx_buffers |-> DictSet(buffers, value_handle, buf), messages |-> <<>>,
          waited |-> FALSE]

\* _send_chunked_response: the values passed to gatts_write, in order
_send_chunked_response(response_bytes) ==
    IF Len(response_bytes) <= chunk_size
    THEN <<response_bytes>>
    ELSE [k \in 1..((Len(response_bytes) + chunk_size - 1) \div chunk_size) |->
            LET i == (k - 1) * chunk_size
                chunk == SubSeq(response_bytes, i + 1,
                                IF i + chunk_size <= Len(response_bytes)
                                THEN i + chunk_size ELSE Len(response_bytes))
            IN  IF i + chunk_size >= Len(response_bytes)
                THEN Append(chunk, Newline) ELSE chunk]

(***************************************************************************)
(* Inputs                                                                  *)
(***************************************************************************)
\* _get_timestamp: time.ticks_ms(); no operation examines the value
Ticks == {0}
MaxFaults == 1          \* storage writes that may fail in one run

Student(roll, name) == JDict([roll |-> JInt(roll), name |-> JStr(name)])
Class(id, name, students) ==
    JDict([id |-> JStr(id), name |-> JStr(name), students |-> JList(students)])

StudentA == Student(1, "A")
StudentB == Student(2, "B")
StudentC == Student(3, "C")
Class1 == Class("c1", "Math", <<StudentA, StudentB>>)
Class2 == Class("c2", "Art", <<StudentC>>)
Class3 == Class("c3", "Gym", <<>>)

Roster0 == JList(<<>>)
Roster1 == JList(<<Class1>>)
Roster2 == JList(<<Class1, Class3>>)
Roster3 == JList(<<Class1, Class2, Class3>>)
ValidRosters == {Roster0, Roster1, Roster3}

InvalidClasses ==
    { JDict([name |-> JStr("X"), students |-> JList(<<>>)]),
      JDict([id |-> JStr("c4"), students |-> JList(<<>>)]),
      JDict([id |-> JStr("c4"), name |-> JStr("X")]),
      JDict([id |-> JStr("c4"), name |-> JStr("X"), students |-> JStr("none")]),
      Class("c4", "X", <<StudentA, JDict([roll |-> JStr("2"), name |-> JStr("B")])>>),
      Class("c4", "X", <<JDict([roll |-> JInt(2), name |-> JInt(5)])>>) }

InvalidRosters ==
    {JList(<<Class1, bad>>) : bad \in InvalidClasses} \cup {JDict(EmptyDict)}

RosterCandidates == ValidRosters \cup InvalidRosters

Record(student, present) ==
    JDict([roll |-> student.v.roll, name |-> student.v.name, present |-> JBool(present)])

\* a record that carries count fields of its own
RecordWithCounts ==
    JDict([roll |-> JInt(3), name |-> JStr("C"), present |-> JBool(FALSE),
           present_count |-> JInt(7), total_students |-> JInt(9)])

ValidRecordLists ==
    { JList(<<Record(StudentA, TRUE), Record(StudentB, FALSE)>>),
      JList(<<RecordWithCounts>>) }

InvalidRecordLists ==
    { JList(<<Record(StudentA, TRUE), JDict([roll |-> JInt(2), name |-> JStr("B")])>>),
      JList(<<JDict([roll |-> JInt(1), name |-> JStr("A"), present |-> JInt(1)])>>),
      JStr("records") }

RecordCandidates == ValidRecordLists \cup InvalidRecordLists

ClassIds == {"c1", "c2"}

\* an attendance entry whose counts do not follow from its records
UntrustedEntry ==
    JDict([class_id |-> JStr("c2"), records |-> JList(<<>>), timestamp |-> JInt(0),
           total_students |-> JInt(5), present_count |-> JInt(0),
           absent_count |-> JInt(0)])

ImportDocuments ==
    { JDict([classes |-> Roster1,
             attendance |-> JDict([k \in {"c1"} |->
                 AttendanceEntry("c1", JList(<<Record(StudentA, TRUE),
                                               Record(StudentB, TRUE)>>), 0)])]),
      JDict([classes |-> Roster3,
             attendance |-> JDict([k \in {"c2"} |-> UntrustedEntry])]),
      JDict([classes |-> JList(<<Class1, Class("c4", "X", <<JStr("B")>>)>>),
             attendance |-> JDict([k \in {"c2"} |-> UntrustedEntry])]),
      JDict([classes |-> Roster1]),
      JList(<<>>) }

\* The write outcomes an operation may be given: a failure is drawn only where a
\* write takes place, and only while the run's failures are not used up.
FaultsOf(raised, outcomes) ==
    /\ Cardinality({i \in 1..Len(outcomes) : outcomes[i] # "ok"}) = raised
    /\ faults + raised <= MaxFaults
    /\ faults' = faults + raised

Raised(r) == IF r.raised THEN 1 ELSE 0

(***************************************************************************)
(* Initial state: a device started for the first time                      *)
(***************************************************************************)
InitStore ==
    /\ classes_file = FileAbsent
    /\ attendance_file = FileAbsent
    /\ classes_data = load_classes(FileAbsent)
    /\ attendance_data = load_attendance(FileAbsent)
    /\ faults = 0

InitUI ==
    /\ current_state = "MAIN_MENU"
    /\ selected_class_index = 0
    /\ current_student_index = 0
    /\ attendance_session = None
    /\ marks = <<>>
    /\ pc = "idle"

InitBLE ==
    /\ connected = FALSE
    /\ conn_handle = None
    /\ rx_buffers = EmptyDict

InitCodecIdle ==
    /\ tx_payload = <<>>
    /\ tx_chunks = <<>>
    /\ rx_whole = <<>>
    /\ rx_pos = 0
    /\ delivered = <<>>

Init ==
    /\ InitStore /\ InitUI /\ InitBLE /\ InitCodecIdle
    /\ last = [op |-> "init"]

(***************************************************************************)
(* The store's operations called directly                                  *)
(***************************************************************************)
SaveClassesCall ==
    \E classes \in RosterCandidates, wr \in WriteOutcomes :
        LET r == save_classes(classes_data, classes_file, classes, wr) IN
        /\ FaultsOf(Raised(r), <<wr>>)
        /\ classes_data' = r.classes_data
        /\ classes_file' = r.classes_file
        /\ last' = [op |-> "save_classes", arg |-> classes, ok |-> r.ok]
        /\ UNCHANGED <<attendance_data, attendance_file, ui_vars, ble_vars, codec_vars, pc>>

SaveAttendanceCall(ids) ==
    \E class_id \in ids, records \in RecordCandidates,
       timestamp \in Ticks, wr \in WriteOutcomes :
        LET r == save_attendance(attendance_data, attendance_file, class_id,
                                 records, timestamp, wr) IN
        /\ FaultsOf(Raised(r), <<wr>>)
        /\ attendance_data' = r.attendance_data
        /\ attendance_file' = r.attendance_file
        /\ last' = [op |-> "save_attendance", class_id |-> class_id,
                    arg |-> records, ok |-> r.ok]
        /\ UNCHANGED <<classes_data, classes_file, ui_vars, ble_vars, codec_vars, pc>>

ClearAttendanceCall(ids) ==
    \E class_id \in ids, wr \in WriteOutcomes :
        LET r == clear_attendance(attendance_data, attendance_file, class_id, wr) IN
        /\ FaultsOf(Raised(r), <<wr>>)
        /\ attendance_data' = r.attendance_data
        /\ attendance_file' = r.attendance_file
        /\ last' = [op |-> "clear_attendance", class_id |-> class_id, ok |-> r.ok]
        /\ UNCHANGED <<classes_data, classes_file, ui_vars, ble_vars, codec_vars, pc>>

ClearAllAttendanceCall ==
    \E wr \in WriteOutcomes :
        LET r == clear_all_attendance(attendance_file, wr) IN
        /\ FaultsOf(Raised(r), <<wr>>)
        /\ attendance_data' = r.attendance_data
        /\ attendance_file' = r.attendance_file
        /\ last' = [op |-> "clear_all_attendance", ok |-> r.ok]
        /\ UNCHANGED <<classes_data, classes_file, ui_vars, ble_vars, codec_vars, pc>>

ImportCall ==
    \E doc \in ImportDocuments, wr1 \in WriteOutcomes, wr2 \in WriteOutcomes :
        LET r == import_data(classes_data, classes_file, attendance_data,
                             attendance_file, doc, wr1, wr2) IN
        /\ FaultsOf(Raised(r), <<wr1, wr2>>)
        /\ classes_data' = r.classes_data
        /\ classes_file' = r.classes_file
        /\ attendance_data' = r.attendance_data
        /\ attendance_file' = r.attendance_file
        /\ last' = [op |-> "import_data", arg |-> doc, ok |-> r.ok,
                    writes |-> <<wr1, wr2>>]
        /\ UNCHANGED <<ui_vars, ble_vars, codec_vars, pc>>

\* reset(): every object is constructed again and the store reloads its files
Reboot ==
    /\ classes_data' = load_classes(classes_file)
    /\ attendance_data' = load_attendance(attendance_file)
    /\ current_state' = "MAIN_MENU"
    /\ selected_class_index' = 0
    /\ current_student_index' = 0
    /\ attendance_session' = None
    /\ marks' = <<>>
    /\ connected' = FALSE
    /\ conn_handle' = None
    /\ rx_buffers' = EmptyDict
    /\ pc' = "idle"
    /\ UNCHANGED <<classes_file, attendance_file, codec_vars, faults>>

\* the device is switched off and on again
Restart ==
    /\ Reboot
    /\ last' = [op |-> "restart"]

NextStore ==
    \/ SaveClassesCall
    \/ SaveAttendanceCall(ClassIds)
    \/ ClearAttendanceCall(ClassIds)
    \/ ClearAllAttendanceCall
    \/ ImportCall
    \/ Restart

SpecStore == Init /\ [][NextStore]_vars

(***************************************************************************)
(* The attendance table of a roster in which a class has the id 7, an int: *)
(* _validate_class_data asks for the field id, not for its type.           *)
(***************************************************************************)
KeyedIds == {"c1", IntKey}

NextKeys ==
    \/ SaveAttendanceCall(KeyedIds)
    \/ ClearAttendanceCall(KeyedIds)
    \/ ClearAllAttendanceCall
    \/ Restart

SpecKeys == Init /\ [][NextKeys]_vars

(***************************************************************************)
(* Properties of the store                                                 *)
(***************************************************************************)
\* The data model's well-formedness of a roster, stated on the candidate itself.
WellFormedStudent(x) ==
    /\ x.t = "dict"
    /\ "roll" \in DOMAIN x.v /\ x.v.roll.t = "int"
    /\ "name" \in DOMAIN x.v /\ x.v.name.t = "str"

WellFormedClass(x) ==
    /\ x.t = "dict"
    /\ "id" \in DOMAIN x.v /\ "name" \in DOMAIN x.v /\ "students" \in DOMAIN x.v
    /\ x.v.students.t = "list"
    /\ \A i \in 1..Len(x.v.students.v) : WellFormedStudent(x.v.students.v[i])

WellFormedRoster(x) ==
    /\ x.t = "list"
    /\ \A i \in 1..Len(x.v) : WellFormedClass(x.v[i])

\* C3: a save_classes call whose candidate fails validation anywhere returns
\* failure and leaves the in-memory roster and the roster file as they were.
C3_InvalidRosterChangesNothing ==
    [][(last'.op = "save_classes" /\ ~WellFormedRoster(last'.arg))
         => (/\ ~last'.ok
             /\ classes_data' = classes_data
             /\ classes_file' = classes_file)]_vars

\* A candidate whose first class is valid and whose second is not was rejected
\* while a three-class roster was stored.
C3_Witness ==
    /\ last.op = "save_classes"
    /\ ~last.ok
    /\ last.arg.t = "list"
    /\ Len(last.arg.v) = 2
    /\ WellFormedClass(last.arg.v[1])
    /\ ~WellFormedClass(last.arg.v[2])
    /\ classes_data = Roster3
    /\ classes_file = JsonDump(Roster3)

NumPresent(records, flag) ==
    Cardinality({i \in 1..Len(records) : records[i].v.present.v = flag})

\* C4: after a successful save_attendance(class_id, records) the stored entry's
\* total is len(records), its present and absent counts are the numbers of
\* records with present true and false, and the two counts add up to the total.
C4_SavedCountsAreRecomputed ==
    (last.op = "save_attendance" /\ last.ok) =>
        /\ last.class_id \in DOMAIN attendance_data
        /\ LET entry == attendance_data[last.class_id].v IN
           /\ entry.records = last.arg
           /\ entry.total_students.v = Len(last.arg.v)
           /\ entry.present_count.v = NumPresent(last.arg.v, TRUE)
           /\ entry.absent_count.v = NumPresent(last.arg.v, FALSE)
           /\ entry.present_count.v + entry.absent_count.v = entry.total_students.v

\* Records that carry count fields of their own were saved.
C4_Witness ==
    /\ last.op = "save_attendance"
    /\ last.ok
    /\ Len(last.arg.v) > 0
    /\ "present_count" \in DOMAIN last.arg.v[1].v
    /\ attendance_data[last.class_id].v.present_count.v = 0
    /\ attendance_data[last.class_id].v.absent_count.v = 1

EntryConsistent(entry) ==
    /\ entry.v.total_students.v = Len(entry.v.records.v)
    /\ entry.v.present_count.v + entry.v.absent_count.v = entry.v.total_students.v

\* C5: every entry of the in-memory attendance table has
\* present_count + absent_count = total_students = len(records).
C5_EveryEntryConsistent ==
    \A class_id \in DOMAIN attendance_data : EntryConsistent(attendance_data[class_id])

ImportHasInvalidClasses(doc) ==
    /\ doc.t = "dict"
    /\ "classes" \in DOMAIN doc.v /\ "attendance" \in DOMAIN doc.v
    /\ ~WellFormedRoster(doc.v.classes)

\* C8: an import whose classes part fails roster validation returns failure,
\* leaves the in-memory roster and attendance table as they were, and writes
\* neither file.
C8_InvalidImportChangesNothing ==
    [][(last'.op = "import_data" /\ ImportHasInvalidClasses(last'.arg))
         => (/\ ~last'.ok
             /\ classes_data' = classes_data
             /\ attendance_data' = attendance_data
             /\ classes_file' = classes_file
             /\ attendance_file' = attendance_file)]_vars

\* Such an import was rejected while a roster and an attendance entry were stored.
C8_Witness ==
    /\ last.op = "import_data"
    /\ ~last.ok
    /\ ImportHasInvalidClasses(last.arg)
    /\ classes_data = Roster3
    /\ "c1" \in DOMAIN attendance_data
    /\ attendance_file = JsonDump(attendance_data)

(***************************************************************************)
(* The reassembly and the chunking on their own: a response is chunked and *)
(* the chunks are written back, or a peer writes a text in slices of its   *)
(* own choosing.                                                           *)
(***************************************************************************)
MaxPayloadBytes == 250  \* longest response that is chunked
MaxTextChars == 4       \* longest text a peer writes, in characters

\* characteristic handles, by the name char_handles gives them
ClassDataHandle == "class_data"
CommandHandle == "command"

\* UTF-8 encodings of "a", " ", "\n", U+00E9 and U+20AC
Characters == {<<97>>, <<32>>, <<10>>, <<195, 169>>, <<226, 130, 172>>}

RECURSIVE TextsOfLength(_)
TextsOfLength(n) ==
    IF n = 0 THEN {<<>>}
    ELSE {t \o c : t \in TextsOfLength(n - 1), c \in Characters}

Texts == UNION {TextsOfLength(n) : n \in 0..MaxTextChars}

\* the text made of one character repeated, of the given length in bytes
Repeat(c, length) == [i \in 1..length |-> c[((i - 1) % Len(c)) + 1]]

Payloads ==
    {Repeat(c, length) : c \in {<<97>>, <<195, 169>>, <<226, 130, 172>>},
                         length \in {n \in 0..MaxPayloadBytes : n % 6 = 0}}
        \cup {Repeat(<<97>>, length) :
                length \in {n \in 0..MaxPayloadBytes : n % chunk_size <= 1}}
        \cup {<<123, 125>>, <<32, 97>>}

InitCodec ==
    /\ InitStore /\ InitUI /\ InitBLE
    /\ delivered = <<>>
    /\ tx_chunks = <<>>
    /\ rx_pos = 0
    /\ \/ /\ tx_payload \in Payloads
          /\ rx_whole = <<>>
          /\ last = [op |-> "response"]
       \/ /\ tx_payload = <<>>
          /\ rx_whole \in Texts
          /\ last = [op |-> "text", cut |-> FALSE]

SendChunkedResponse ==
    /\ last.op = "response"
    /\ tx_chunks' = _send_chunked_response(tx_payload)
    /\ last' = [op |-> "send_chunked_response"]
    /\ UNCHANGED <<store_vars, ui_vars, ble_vars, tx_payload, rx_whole, rx_pos,
                   delivered, pc, faults>>

\* the next chunk of the response is written to the class-data characteristic
WriteChunk ==
    /\ last.op \in {"send_chunked_response", "write_chunk"}
    /\ tx_chunks # <<>>
    /\ LET r == _handle_write(rx_buffers, ClassDataHandle, Head(tx_chunks)) IN
       /\ rx_buffers' = r.rx_buffers
       /\ delivered' = delivered \o r.messages
       /\ last' = [op |-> "write_chunk"]
    /\ tx_chunks' = Tail(tx_chunks)
    /\ UNCHANGED <<store_vars, ui_vars, connected, conn_handle, tx_payload,
                   rx_whole, rx_pos, pc, faults>>

\* the peer writes the next n bytes of its text
WriteSlice ==
    /\ last.op \in {"text", "write_slice"}
    /\ \E n \in 1..(Len(rx_whole) - rx_pos) :
        LET r == _handle_write(rx_buffers, ClassDataHandle,
                               SubSeq(rx_whole, rx_pos + 1, rx_pos + n)) IN
        /\ rx_buffers' = r.rx_buffers
        /\ delivered' = delivered \o r.messages
        /\ rx_pos' = rx_pos + n
        /\ last' = [op |-> "write_slice", cut |-> last.cut \/ r.waited]
    /\ UNCHANGED <<store_vars, ui_vars, connected, conn_handle, tx_payload,
                   tx_chunks, rx_whole, pc, faults>>

NextCodec ==
    \/ SendChunkedResponse
    \/ WriteChunk
    \/ WriteSlice

SpecCodec == InitCodec /\ [][NextCodec]_vars

(***************************************************************************)
(* Properties of the reassembly and the chunking                           *)
(***************************************************************************)
\* C1: once every chunk of a chunked response has been written back into an
\* empty buffer, exactly one message has been delivered and it is the response.
C1_ChunksReassembleToPayload ==
    (last.op = "write_chunk" /\ tx_chunks = <<>>) => delivered = <<tx_payload>>

\* C2: once the peer has written all of its text, in whatever slices, the
\* messages delivered and the buffer left over are those of a single write of
\* the whole text.
C2_SlicedWriteEqualsWholeWrite ==
    (last.op = "write_slice" /\ rx_pos = Len(rx_whole)) =>
        LET whole == _handle_write(EmptyDict, ClassDataHandle, rx_whole) IN
        /\ delivered = whole.messages
        /\ rx_buffers = whole.rx_buffers

\* A newline-terminated text was written in slices, one of which ended inside a
\* multi-byte character, and its message was delivered.
C2_Witness ==
    /\ last.op = "write_slice"
    /\ last.cut
    /\ rx_pos = Len(rx_whole)
    /\ rx_whole[Len(rx_whole)] = Newline
    /\ delivered = <<SubSeq(rx_whole, 1, Len(rx_whole) - 1)>>
    /\ Len(delivered[1]) > 3

(***************************************************************************)
(* Messages a peer writes                                                  *)
(***************************************************************************)
\* []
TextRoster0 ==
    <<91, 93>>

\* [{"id":"c1","name":"Math","students":[{"roll":1,"name":"A"},{"roll":2,"name":"B"}]}]
TextRoster1 ==
    <<91, 123, 34, 105, 100, 34, 58, 34, 99, 49, 34, 44, 34, 110, 97, 109,
      101, 34, 58, 34, 77, 97, 116, 104, 34, 44, 34, 115, 116, 117, 100,
      101, 110, 116, 115, 34, 58, 91, 123, 34, 114, 111, 108, 108, 34, 58,
      49, 44, 34, 110, 97, 109, 101, 34, 58, 34, 65, 34, 125, 44, 123, 34,
      114, 111, 108, 108, 34, 58, 50, 44, 34, 110, 97, 109, 101, 34, 58, 34,
      66, 34, 125, 93, 125, 93>>

\* [{"id":"c1","name":"Math","students":[{"roll":1,"name":"A"},{"roll":2,"name":"B"}]},{"id":"c3","name":"Gym","students":[]}]
TextRoster2 ==
    <<91, 123, 34, 105, 100, 34, 58, 34, 99, 49, 34, 44, 34, 110, 97, 109,
      101, 34, 58, 34, 77, 97, 116, 104, 34, 44, 34, 115, 116, 117, 100,
      101, 110, 116, 115, 34, 58, 91, 123, 34, 114, 111, 108, 108, 34, 58,
      49, 44, 34, 110, 97, 109, 101, 34, 58, 34, 65, 34, 125, 44, 123, 34,
      114, 111, 108, 108, 34, 58, 50, 44, 34, 110, 97, 109, 101, 34, 58,
      34, 66, 34, 125, 93, 125, 44, 123, 34, 105, 100, 34, 58, 34, 99, 51,
      34, 44, 34, 110, 97, 109, 101, 34, 58, 34, 71, 121, 109, 34, 44, 34,
      115, 116, 117, 100, 101, 110, 116, 115, 34, 58, 91, 93, 125, 93>>

\* [{"id":"c1","name":"Math","students":[{"roll":1,"name":"A"},{"roll":2,"name":"B"}]},{"id":"c4","name":"X"}]
TextRosterInvalid ==
    <<91, 123, 34, 105, 100, 34, 58, 34, 99, 49, 34, 44, 34, 110, 97, 109,
      101, 34, 58, 34, 77, 97, 116, 104, 34, 44, 34, 115, 116, 117, 100,
      101, 110, 116, 115, 34, 58, 91, 123, 34, 114, 111, 108, 108, 34, 58,
      49, 44, 34, 110, 97, 109, 101, 34, 58, 34, 65, 34, 125, 44, 123, 34,
      114, 111, 108, 108, 34, 58, 50, 44, 34, 110, 97, 109, 101, 34, 58, 34,
      66, 34, 125, 93, 125, 44, 123, 34, 105, 100, 34, 58, 34, 99, 52, 34,
      44, 34, 110, 97, 109, 101, 34, 58, 34, 88, 34, 125, 93>>

\* {}
TextEmptyObject ==
    <<123, 125>>

\* {"command":
TextNotJson ==
    <<123, 34, 99, 111, 109, 109, 97, 110, 100, 34, 58>>

\* {"command":"clear_attendance","class_id":"c1"}
TextClearAttendance ==
    <<123, 34, 99, 111, 109, 109, 97, 110, 100, 34, 58, 34, 99, 108, 101,
      97, 114, 95, 97, 116, 116, 101, 110, 100, 97, 110, 99, 101, 34, 44,
      34, 99, 108, 97, 115, 115, 95, 105, 100, 34, 58, 34, 99, 49, 34, 125>>

\* {"command":"clear_all_attendance"}
TextClearAll ==
    <<123, 34, 99, 111, 109, 109, 97, 110, 100, 34, 58, 34, 99, 108, 101,
      97, 114, 95, 97, 108, 108, 95, 97, 116, 116, 101, 110, 100, 97, 110,
      99, 101, 34, 125>>

\* {"command":"get_status"}
TextGetStatus ==
    <<123, 34, 99, 111, 109, 109, 97, 110, 100, 34, 58, 34, 103, 101, 116,
      95, 115, 116, 97, 116, 117, 115, 34, 125>>

\* {"command":"reboot"}
TextUnknownCommand ==
    <<123, 34, 99, 111, 109, 109, 97, 110, 100, 34, 58, 34, 114, 101, 98,
      111, 111, 116, 34, 125>>

\* json.loads on the texts above; every other text a peer can put together
\* from the values below is not JSON (ValueError).
json_loads(text) ==
    CASE text = TextRoster0 -> [ok |-> TRUE, value |-> Roster0]
      [] text = TextRoster1 -> [ok |-> TRUE, value |-> Roster1]
      [] text = TextRoster2 -> [ok |-> TRUE, value |-> Roster2]
      [] text = TextRosterInvalid ->
            [ok |-> TRUE,
             value |-> JList(<<Class1, JDict([id |-> JStr("c4"), name |-> JStr("X")])>>)]
      [] text = TextEmptyObject -> [ok |-> TRUE, value |-> JDict(EmptyDict)]
      [] text = TextClearAttendance ->
            [ok |-> TRUE,
             value |-> JDict([command |-> JStr("clear_attendance"),
                              class_id |-> JStr("c1")])]
      [] text = TextClearAll ->
            [ok |-> TRUE, value |-> JDict([command |-> JStr("clear_all_attendance")])]
      [] text = TextGetStatus ->
            [ok |-> TRUE, value |-> JDict([command |-> JStr("get_status")])]
      [] text = TextUnknownCommand ->
            [ok |-> TRUE, value |-> JDict([command |-> JStr("reboot")])]
      [] OTHER -> [ok |-> FALSE, value |-> None]

PeerWriteSize == 20     \* bytes in the first write of a message sent in two writes
MaxPending == 20        \* bytes a peer leaves pending in a buffer

Terminated(text) == Append(text, Newline)
FirstPart(text) == SubSeq(text, 1, PeerWriteSize)
SecondPart(text) == Terminated(SubSeq(text, PeerWriteSize + 1, Len(text)))

WritableHandles == {ClassDataHandle, CommandHandle}

WriteValues(value_handle) ==
    IF value_handle = ClassDataHandle
    THEN {Terminated(t) : t \in {TextRoster0, TextRoster1, TextRoster2,
                                 TextRosterInvalid, TextEmptyObject, TextNotJson}}
            \cup {FirstPart(TextRoster1), SecondPart(TextRoster1)}
    ELSE {Terminated(t) : t \in {TextClearAttendance, TextClearAll, TextGetStatus,
                                 TextUnknownCommand, TextEmptyObject, TextRoster0,
                                 TextNotJson}}

\* what a peer writes when the BLE server is examined on its own
AllWrites == [value_handle \in WritableHandles |-> WriteValues(value_handle)]

\* what the peer of the complete system writes: whole messages, the roster
\* syncs and the commands that change the store, and commands that are refused
SystemWrites ==
    [value_handle \in WritableHandles |->
        IF value_handle = ClassDataHandle
        THEN {Terminated(t) : t \in {TextRoster0, TextRoster1, TextRoster2,
                                     TextRosterInvalid}}
        ELSE {Terminated(t) : t \in {TextClearAttendance, TextClearAll,
                                     TextUnknownCommand, TextEmptyObject}}]


(***************************************************************************)
(* AttendanceBLEServer: dispatch of a complete message.  st holds the      *)
(* store's fields, the number of writes that raised, the notifications     *)
(* sent for the message in hand and, for each message dispatched so far,   *)
(* its text and the notifications it was answered with.                    *)
(***************************************************************************)
\* gatts_notify, if self.connected
Notify(st, is_connected, value_handle, response) ==
    IF is_connected
    THEN [st EXCEPT !.notified = Append(@, [handle |-> value_handle,
                                            response |-> response])]
    ELSE st

ClassDataWriteAlwaysSuccess(st, is_connected, classes, wr) ==
    LET r == save_classes(st.classes_data, st.classes_file, classes, wr)
        after == [st EXCEPT !.classes_data = r.classes_data,
                            !.classes_file = r.classes_file,
                            !.raised = @ + Raised(r)]
    IN  Notify(after, is_connected, ClassDataHandle,
               [status |-> "success", message |-> "Data synced successfully"])

_handle_class_data_write(st, is_connected, classes, wr) ==
    LET r == save_classes(st.classes_data, st.classes_file, classes, wr)
        after == [st EXCEPT !.classes_data = r.classes_data,
                            !.classes_file = r.classes_file,
                            !.raised = @ + Raised(r)]
    IN  Notify(after, is_connected, ClassDataHandle,
               IF r.ok
               THEN [status |-> "success", message |-> "Data synced successfully"]
               ELSE [status |-> "error", message |-> "Failed to save data"])

DictGetOrStatus(d, key) == IF key \in DOMAIN d THEN d[key] ELSE JStr("get_status")

\* dict.get(key): None when the key is missing
DictGet(d, key) == IF key \in DOMAIN d THEN d[key] ELSE None

_handle_command_write(st, is_connected, command_data, wr) ==
    IF ~IsInstanceDict(command_data)
    THEN \* AttributeError from command_data.get
         Notify(st, is_connected, CommandHandle,
                [status |-> "error", message |-> "exception"])
    ELSE
    LET command == DictGet(command_data.v, "command") IN
    IF command = JStr("clear_attendance")
    THEN LET class_id == DictGet(command_data.v, "class_id")
             r == IF IsInstanceStr(class_id)
                  THEN clear_attendance(st.attendance_data, st.attendance_file,
                                        class_id.v, wr)
                  ELSE [ok |-> FALSE, raised |-> FALSE,
                        attendance_data |-> st.attendance_data,
                        attendance_file |-> st.attendance_file]
             after == [st EXCEPT !.attendance_data = r.attendance_data,
                                 !.attendance_file = r.attendance_file,
                                 !.raised = @ + Raised(r)]
         IN  Notify(after, is_connected, CommandHandle,
                    [status |-> IF r.ok THEN "success" ELSE "error",
                     command |-> command.v, class_id |-> class_id])
    ELSE IF command = JStr("clear_all_attendance")
    THEN LET r == clear_all_attendance(st.attendance_file, wr)
             after == [st EXCEPT !.attendance_data = r.attendance_data,
                                 !.attendance_file = r.attendance_file,
                                 !.raised = @ + Raised(r)]
         IN  Notify(after, is_connected, CommandHandle,
                    [status |-> IF r.ok THEN "success" ELSE "error",
                     command |-> command.v])
    ELSE IF command = JStr("get_status")
    THEN Notify(st, is_connected, CommandHandle,
                [device_name |-> "ESP32-Attendance",
                 classes_count |-> Len(st.classes_data.v)])
    ELSE Notify(st, is_connected, CommandHandle,
                [status |-> "error", message |-> "Unknown command"])

_process_complete_message(st, is_connected, value_handle, message, wr) ==
    LET parsed == json_loads(message) IN
    IF ~parsed.ok
    THEN st     \* ValueError: printed, nothing else
    ELSE IF value_handle = ClassDataHandle
    THEN _handle_class_data_write(st, is_connected, parsed.value, wr)
    ELSE IF value_handle = CommandHandle
    THEN _handle_command_write(st, is_connected, parsed.value, wr)
    ELSE st

\* one call of _process_complete_message from the loop of _handle_write
Dispatch(st, is_connected, value_handle, message, wr) ==
    LET after == _process_complete_message([st EXCEPT !.notified = <<>>],
                                           is_connected, value_handle, message, wr)
    IN  [after EXCEPT !.dispatched =
            Append(@, [message |-> message, notified |-> after.notified])]

\* the loop of _handle_write over the complete messages, in order
RECURSIVE ProcessMessages(_, _, _, _, _)
ProcessMessages(st, is_connected, value_handle, messages, wrs) ==
    IF messages = <<>> THEN st
    ELSE ProcessMessages(
            Dispatch(st, is_connected, value_handle, Head(messages), Head(wrs)),
            is_connected, value_handle, Tail(messages), Tail(wrs))

StoreNow ==
    [classes_data |-> classes_data, classes_file |-> classes_file,
     attendance_data |-> attendance_data, attendance_file |-> attendance_file,
     raised |-> 0, notified |-> <<>>, dispatched |-> <<>>]

(***************************************************************************)
(* AttendanceBLEServer._irq_handler, one action for each event             *)
(***************************************************************************)
ConnHandles == {0}
TwoCentrals == {0, 1}

\* the bytes that wait in the reassembly buffers
PendingBytes(buffers) ==
    Len(BufferOf(buffers, ClassDataHandle)) + Len(BufferOf(buffers, CommandHandle))

ConnectKeepsBuffers(handles) ==
    \E handle \in handles :
        /\ conn_handle' = JInt(handle)
        /\ connected' = TRUE
        /\ last' = [op |-> "connect", handle |-> handle,
                    pending |-> PendingBytes(rx_buffers)]
        /\ UNCHANGED <<store_vars, ui_vars, rx_buffers, codec_vars, pc, faults>>

\* _IRQ_CENTRAL_CONNECT, with a connection handle out of the set handles
CentralConnect(handles) ==
    \E handle \in handles :
        /\ conn_handle' = JInt(handle)
        /\ connected' = TRUE
        /\ rx_buffers' = EmptyDict
        /\ last' = [op |-> "connect", handle |-> handle,
                    pending |-> PendingBytes(rx_buffers)]
        /\ UNCHANGED <<store_vars, ui_vars, codec_vars, pc, faults>>

DisconnectAlsoCancelsSession ==
    /\ connected' = FALSE
    /\ conn_handle' = None
    /\ rx_buffers' = EmptyDict
    /\ attendance_session' = None
    /\ current_state' = IF current_state = "ATTENDANCE_TAKING"
                        THEN "CLASS_SELECTION" ELSE current_state
    /\ last' = [op |-> "disconnect", pending |-> PendingBytes(rx_buffers)]
    /\ UNCHANGED <<store_vars, selected_class_index, current_student_index, marks,
                   codec_vars, pc, faults>>

DisconnectKeepsBuffers ==
    /\ connected' = FALSE
    /\ conn_handle' = None
    /\ last' = [op |-> "disconnect", pending |-> PendingBytes(rx_buffers)]
    /\ UNCHANGED <<store_vars, ui_vars, rx_buffers, codec_vars, pc, faults>>

\* _IRQ_CENTRAL_DISCONNECT
CentralDisconnect ==
    /\ connected' = FALSE
    /\ conn_handle' = None
    /\ rx_buffers' = EmptyDict
    /\ last' = [op |-> "disconnect", pending |-> PendingBytes(rx_buffers)]
    /\ UNCHANGED <<store_vars, ui_vars, codec_vars, pc, faults>>

\* _IRQ_GATTS_WRITE, with a value out of the set values gives for the handle
GattsWrite(values) ==
    /\ connected
    /\ \E value_handle \in WritableHandles :
       \E value \in values[value_handle] :
       \E w \in {_handle_write(rx_buffers, value_handle, value)} :
        /\ Len(w.rx_buffers[value_handle]) <= MaxPending
        /\ \E wrs \in [1..Len(w.messages) -> WriteOutcomes] :
           \E st \in {ProcessMessages(StoreNow, connected, value_handle,
                                      w.messages, wrs)} :
            /\ FaultsOf(st.raised, wrs)
            /\ classes_data' = st.classes_data
            /\ classes_file' = st.classes_file
            /\ attendance_data' = st.attendance_data
            /\ attendance_file' = st.attendance_file
            /\ rx_buffers' = w.rx_buffers
            /\ last' = [op |-> "write", handle |-> value_handle,
                        dispatched |-> st.dispatched]
    /\ UNCHANGED <<ui_vars, connected, conn_handle, codec_vars, pc>>

(***************************************************************************)
(* AttendanceSystem: the button handlers of the main loop                  *)
(***************************************************************************)
Events == {"UP", "DOWN", "SELECT", "PRESENT", "ABSENT", "BACK"}

\* run: an exception that escapes a handler ends in reset(), which boots the
\* device again
Crash(event) ==
    /\ Reboot
    /\ last' = [op |-> "button", event |-> event, state |-> current_state,
                raised |-> TRUE]

Handled(event) ==
    last' = [op |-> "button", event |-> event, state |-> current_state,
             raised |-> FALSE]

start_attendance_session(class_data) ==
    [class_id |-> class_data.v.id.v,
     class_name |-> class_data.v.name.v,
     students |-> class_data.v.students.v,
     records |-> <<>>,
     current_index |-> 0]

MarkRecordAlwaysPresent(current_student, is_present) ==
    JDict([roll |-> current_student.v.roll, name |-> current_student.v.name,
           present |-> JBool(TRUE)])

\* mark_student: the record of the current student
MarkRecord(current_student, is_present) ==
    JDict([roll |-> current_student.v.roll, name |-> current_student.v.name,
           present |-> JBool(is_present)])

MainMenuSelectAlways(pressed) ==
    /\ pc = "idle"
    /\ current_state = "MAIN_MENU"
    /\ \E event \in pressed :
        /\ IF event = "SELECT"
           THEN /\ current_state' = "CLASS_SELECTION"
                /\ selected_class_index' = 0
           ELSE UNCHANGED <<current_state, selected_class_index>>
        /\ Handled(event)
        /\ UNCHANGED <<store_vars, current_student_index, attendance_session,
                       marks, ble_vars, codec_vars, pc, faults>>

\* handle_main_menu_buttons, for an event out of the set pressed
MainMenuButtons(pressed) ==
    /\ pc = "idle"
    /\ current_state = "MAIN_MENU"
    /\ \E event \in pressed :
        IF event = "SELECT"
        THEN /\ IF classes_data.v # <<>>
                THEN /\ current_state' = "CLASS_SELECTION"
                     /\ selected_class_index' = 0
                ELSE UNCHANGED <<current_state, selected_class_index>>
             /\ Handled(event)
             /\ UNCHANGED <<store_vars, current_student_index, attendance_session,
                            marks, ble_vars, codec_vars, pc, faults>>
        ELSE \* no branch for the other buttons
             /\ Handled(event)
             /\ UNCHANGED <<store_vars, ui_vars, ble_vars, codec_vars, pc, faults>>

MoveSelectionNoWrap(index, step, length) ==
    IF index + step < 0 THEN 0
    ELSE IF index + step >= length THEN length - 1
    ELSE index + step

\* (self.selected_class_index - 1) % len(classes), and + 1: Python's % gives a
\* result in 0..length-1 for a positive length, as % does here
MoveSelection(index, step, length) == (index + step) % length

\* handle_class_selection_buttons, for an event out of the set pressed
ClassSelectionButtons(pressed) ==
    /\ pc = "idle"
    /\ current_state = "CLASS_SELECTION"
    /\ \E event \in pressed :
        LET classes == classes_data.v IN
        IF event \in {"UP", "DOWN"}
        THEN IF Len(classes) = 0
             THEN Crash(event)      \* ZeroDivisionError
             ELSE /\ selected_class_index' =
                        MoveSelection(selected_class_index,
                                      IF event = "UP" THEN -1 ELSE 1, Len(classes))
                  /\ Handled(event)
                  /\ UNCHANGED <<store_vars, current_state, current_student_index,
                                 attendance_session, marks, ble_vars, codec_vars,
                                 pc, faults>>
        ELSE IF event = "SELECT"
        THEN IF selected_class_index >= Len(classes)
             THEN Crash(event)      \* IndexError
             ELSE LET selected_class == classes[selected_class_index + 1] IN
                  IF is_attendance_taken(attendance_data, selected_class.v.id.v)
                  THEN /\ Handled(event)
                       /\ UNCHANGED <<store_vars, ui_vars, ble_vars, codec_vars,
                                      pc, faults>>
                  ELSE /\ attendance_session' = start_attendance_session(selected_class)
                       /\ current_student_index' = 0
                       /\ current_state' = "ATTENDANCE_TAKING"
                       /\ marks' = <<>>
                       /\ Handled(event)
                       /\ UNCHANGED <<store_vars, selected_class_index, ble_vars,
                                      codec_vars, pc, faults>>
        ELSE IF event = "BACK"
        THEN /\ current_state' = "MAIN_MENU"
             /\ Handled(event)
             /\ UNCHANGED <<store_vars, selected_class_index, current_student_index,
                            attendance_session, marks, ble_vars, codec_vars, pc,
                            faults>>
        ELSE \* no branch for PRESENT and ABSENT
             /\ Handled(event)
             /\ UNCHANGED <<store_vars, ui_vars, ble_vars, codec_vars, pc, faults>>

CancelToMainMenu(pressed) ==
    /\ pc = "idle"
    /\ current_state = "ATTENDANCE_TAKING"
    /\ \E event \in pressed \ {"PRESENT", "ABSENT"} :
        /\ IF event = "BACK"
           THEN /\ attendance_session' = None
                /\ current_state' = "MAIN_MENU"
                /\ marks' = <<>>
           ELSE UNCHANGED <<attendance_session, current_state, marks>>
        /\ Handled(event)
        /\ UNCHANGED <<store_vars, selected_class_index, current_student_index,
                       ble_vars, codec_vars, pc, faults>>

CancelOnAnyButton(pressed) ==
    /\ pc = "idle"
    /\ current_state = "ATTENDANCE_TAKING"
    /\ \E event \in pressed \ {"PRESENT", "ABSENT"} :
        /\ attendance_session' = None
        /\ current_state' = "CLASS_SELECTION"
        /\ marks' = <<>>
        /\ Handled(event)
        /\ UNCHANGED <<store_vars, selected_class_index, current_student_index,
                       ble_vars, codec_vars, pc, faults>>

CancelIgnoresBack(pressed) ==
    /\ pc = "idle"
    /\ current_state = "ATTENDANCE_TAKING"
    /\ \E event \in pressed \ {"PRESENT", "ABSENT"} :
        /\ Handled(event)
        /\ UNCHANGED <<store_vars, ui_vars, ble_vars, codec_vars, pc, faults>>

CancelKeepsSession(pressed) ==
    /\ pc = "idle"
    /\ current_state = "ATTENDANCE_TAKING"
    /\ \E event \in pressed \ {"PRESENT", "ABSENT"} :
        /\ IF event = "BACK" /\ attendance_session # None
           THEN current_state' = "CLASS_SELECTION"
           ELSE UNCHANGED current_state
        /\ Handled(event)
        /\ UNCHANGED <<store_vars, selected_class_index, current_student_index,
                       attendance_session, marks, ble_vars, codec_vars, pc, faults>>

CancelSavesMarks(pressed) ==
    /\ pc = "idle"
    /\ current_state = "ATTENDANCE_TAKING"
    /\ attendance_session # None
    /\ \E event \in pressed \ {"PRESENT", "ABSENT"} :
        /\ IF event = "BACK"
           THEN LET r == save_attendance(attendance_data, attendance_file,
                                         attendance_session.class_id,
                                         JList(attendance_session.records), 0, "ok")
                IN  /\ attendance_data' = r.attendance_data
                    /\ attendance_file' = r.attendance_file
                    /\ attendance_session' = None
                    /\ current_state' = "CLASS_SELECTION"
                    /\ marks' = <<>>
           ELSE UNCHANGED <<attendance_data, attendance_file, attendance_session,
                            current_state, marks>>
        /\ Handled(event)
        /\ UNCHANGED <<classes_data, classes_file, selected_class_index,
                       current_student_index, ble_vars, codec_vars, pc, faults>>

\* handle_attendance_buttons: BACK cancels the session; there is no branch for
\* the navigation buttons
CancelAttendance(pressed) ==
    /\ pc = "idle"
    /\ current_state = "ATTENDANCE_TAKING"
    /\ \E event \in pressed \ {"PRESENT", "ABSENT"} :
        IF event = "BACK"
        THEN /\ IF attendance_session # None
                THEN /\ attendance_session' = None
                     /\ current_state' = "CLASS_SELECTION"
                     /\ marks' = <<>>
                ELSE UNCHANGED <<attendance_session, current_state, marks>>
             /\ Handled(event)
             /\ UNCHANGED <<store_vars, selected_class_index, current_student_index,
                            ble_vars, codec_vars, pc, faults>>
        ELSE \* no branch for UP, DOWN and SELECT
             /\ Handled(event)
             /\ UNCHANGED <<store_vars, ui_vars, ble_vars, codec_vars, pc, faults>>

RosterStudents ==
    IF selected_class_index < Len(classes_data.v)
    THEN classes_data.v[selected_class_index + 1].v.students.v
    ELSE <<>>

\* mark_student: students = session['students']
SessionStudents == attendance_session.students

\* handle_attendance_buttons: PRESENT or ABSENT, with the save of the last
\* student's mark
MarkStudent ==
    /\ pc = "idle"
    /\ current_state = "ATTENDANCE_TAKING"
    /\ attendance_session # None
    /\ \E event \in {"PRESENT", "ABSENT"} :
        LET students == SessionStudents IN
        IF current_student_index >= Len(students)
        THEN Crash(event)           \* IndexError
        ELSE LET record == MarkRecord(students[current_student_index + 1],
                                      event = "PRESENT")
                 records == Append(attendance_session.records, record)
             IN
             /\ current_student_index' = current_student_index + 1
             /\ Handled(event)
             /\ UNCHANGED <<classes_data, classes_file, selected_class_index,
                            ble_vars, codec_vars, pc>>
             /\ IF current_student_index + 1 >= Len(students)
                THEN \E timestamp \in Ticks, wr \in WriteOutcomes :
                        LET r == save_attendance(attendance_data, attendance_file,
                                                 attendance_session.class_id,
                                                 JList(records), timestamp, wr) IN
                        /\ FaultsOf(Raised(r), <<wr>>)
                        /\ attendance_data' = r.attendance_data
                        /\ attendance_file' = r.attendance_file
                        /\ attendance_session' = None
                        /\ current_state' = "CLASS_SELECTION"
                        /\ marks' = <<>>
                ELSE /\ attendance_session' =
                            [attendance_session EXCEPT !.records = records]
                     /\ marks' = Append(marks, event)
                     /\ UNCHANGED <<attendance_data, attendance_file, current_state,
                                    faults>>

\* The buttons that have a branch in the handler of each state.  The operator
\* of the complete system presses these; a press of any other button is
\* examined on its own under SpecButtons.
Branches ==
    [MAIN_MENU |-> {"SELECT"},
     CLASS_SELECTION |-> {"UP", "DOWN", "SELECT", "BACK"},
     ATTENDANCE_TAKING |-> {"PRESENT", "ABSENT", "BACK"}]

Next ==
    \/ MainMenuButtons(Branches.MAIN_MENU)
    \/ ClassSelectionButtons(Branches.CLASS_SELECTION)
    \/ CancelAttendance(Branches.ATTENDANCE_TAKING)
    \/ MarkStudent
    \/ CentralConnect(ConnHandles)
    \/ CentralDisconnect
    \/ GattsWrite(SystemWrites)
    \/ Restart

Spec == Init /\ [][Next]_vars

(***************************************************************************)
(* The session state machine on its own: a device that starts with the     *)
(* roster and the attendance table an earlier run has saved (InitSaved),   *)
(* and an operator who presses any button in any state.                    *)
(***************************************************************************)
SavedRosters == {Roster1, Roster2, Roster3}

SavedAttendance ==
    [k \in {"c1"} |->
        AttendanceEntry("c1", JList(<<Record(StudentA, TRUE),
                                      Record(StudentB, FALSE)>>), 0)]

InitSaved ==
    /\ classes_file \in {FileAbsent} \cup {JsonDump(r) : r \in SavedRosters}
    /\ attendance_file \in {FileAbsent, JsonDump(SavedAttendance)}
    /\ classes_data = load_classes(classes_file)
    /\ attendance_data = load_attendance(attendance_file)
    /\ faults = 0
    /\ InitUI /\ InitBLE /\ InitCodecIdle
    /\ last = [op |-> "init"]

NextButtons ==
    \/ MainMenuButtons(Events)
    \/ ClassSelectionButtons(Events)
    \/ CancelAttendance(Events)
    \/ MarkStudent
    \/ Restart

SpecButtons == InitSaved /\ [][NextButtons]_vars

(***************************************************************************)
(* The BLE server on its own: centrals connect and disconnect and write    *)
(* any of the messages, on a device that starts with saved data.           *)
(***************************************************************************)
NextBle ==
    \/ CentralConnect(TwoCentrals)
    \/ CentralDisconnect
    \/ GattsWrite(AllWrites)

SpecBle == InitSaved /\ [][NextBle]_vars

(***************************************************************************)
(* A peer that sends one message over a link that may drop.  The peer      *)
(* writes the message in slices of its own choosing; after every connect   *)
(* it starts again at the first byte.  rx_pos counts the bytes written on  *)
(* the present connection and delivered holds the messages handed on since *)
(* the peer last started at the first byte.                                *)
(***************************************************************************)
\* "\u00e9\u20ac" as a JSON string in UTF-8
TextAccented == <<34, 195, 169, 226, 130, 172, 34>>

LinkMessages == {Terminated(t) : t \in {TextGetStatus, TextRoster0, TextAccented}}

InitLink ==
    /\ InitStore /\ InitUI /\ InitBLE
    /\ tx_payload = <<>>
    /\ tx_chunks = <<>>
    /\ rx_whole \in LinkMessages
    /\ rx_pos = 0
    /\ delivered = <<>>
    /\ last = [op |-> "init"]

\* the peer writes the next n bytes of its message to the class-data
\* characteristic; dropped is the number of bytes it had written on the
\* connection before this one
LinkWrite ==
    /\ connected
    /\ last.op \in {"connect", "link_write"}
    /\ LET pos == IF last.op = "connect" THEN 0 ELSE rx_pos IN
       \E n \in 1..(Len(rx_whole) - pos) :
       \E w \in {_handle_write(rx_buffers, ClassDataHandle,
                                SubSeq(rx_whole, pos + 1, pos + n))} :
        /\ rx_buffers' = w.rx_buffers
        /\ delivered' = (IF last.op = "connect" THEN <<>> ELSE delivered)
                            \o w.messages
        /\ rx_pos' = pos + n
        /\ last' = [op |-> "link_write",
                    dropped |-> IF last.op = "connect" THEN rx_pos ELSE last.dropped]
    /\ UNCHANGED <<store_vars, ui_vars, connected, conn_handle, tx_payload,
                   tx_chunks, rx_whole, pc, faults>>

NextLink ==
    \/ CentralConnect(ConnHandles)
    \/ CentralDisconnect
    \/ LinkWrite

SpecLink == InitLink /\ [][NextLink]_vars

(***************************************************************************)
(* A peer whose message follows a line of bytes that are not UTF-8: a      *)
(* stray byte, a lead byte without its continuation or a continuation      *)
(* byte without its lead, each followed by a newline.  It writes line and  *)
(* message in slices of its own choosing.                                  *)
(***************************************************************************)
NoiseLines == {<<>>, <<255, Newline>>, <<195, Newline>>, <<128, Newline>>}

NoiseMessages == {Terminated(t) : t \in {TextGetStatus, TextRoster0}}

InitNoise ==
    /\ InitStore /\ InitUI /\ InitBLE
    /\ tx_payload = <<>>
    /\ tx_chunks = <<>>
    /\ rx_whole \in {noise \o m : noise \in NoiseLines, m \in NoiseMessages}
    /\ rx_pos = 0
    /\ delivered = <<>>
    /\ last = [op |-> "text", cut |-> FALSE]

NextNoise == WriteSlice

SpecNoise == InitNoise /\ [][NextNoise]_vars

(***************************************************************************)
(* Properties of the session state machine and of the BLE events           *)
(***************************************************************************)
MarkStep ==
    /\ last'.op = "button"
    /\ last'.state = "ATTENDANCE_TAKING"
    /\ last'.event \in {"PRESENT", "ABSENT"}
    /\ ~last'.raised
    /\ attendance_session # None

\* the records that a sequence of PRESENT/ABSENT events should give the students
ExpectedRecords(students, events) ==
    [i \in 1..Len(events) |->
        JDict([roll |-> students[i].v.roll, name |-> students[i].v.name,
               present |-> JBool(events[i] = "PRESENT")])]

CountOf(events, event) == Cardinality({i \in 1..Len(events) : events[i] = event})

\* C6: a session begins on an untaken class with the students of that class in
\* roster order and no marks; each PRESENT/ABSENT event on a session of n >= 1
\* students adds one mark; the session goes on while fewer than n events have
\* been issued, and the n-th event ends it in CLASS_SELECTION with no session
\* and with an entry for the class whose records list the n students in order,
\* record i present exactly when event i was PRESENT, present_count the number
\* of PRESENT events and absent_count the number of ABSENT events.
C6_MarkedSessionIsSaved ==
    [][ /\ (/\ last'.op = "button"
            /\ last'.state = "CLASS_SELECTION"
            /\ last'.event = "SELECT"
            /\ attendance_session' # None)
           => /\ selected_class_index < Len(classes_data.v)
              /\ LET selected_class == classes_data.v[selected_class_index + 1].v IN
                 /\ selected_class.id.v \notin DOMAIN attendance_data
                 /\ attendance_session'.class_id = selected_class.id.v
                 /\ attendance_session'.students = selected_class.students.v
              /\ marks' = <<>>
              /\ current_state' = "ATTENDANCE_TAKING"
        /\ MarkStep
           => LET students == attendance_session.students
                  events == Append(marks, last'.event)
              IN  /\ Len(events) <= Len(students)
                  /\ IF Len(events) < Len(students)
                     THEN /\ current_state' = "ATTENDANCE_TAKING"
                          /\ attendance_session' # None
                          /\ attendance_session'.students = students
                          /\ marks' = events
                     ELSE /\ current_state' = "CLASS_SELECTION"
                          /\ attendance_session' = None
                          /\ attendance_session.class_id \in DOMAIN attendance_data'
                          /\ LET entry ==
                                    attendance_data'[attendance_session.class_id].v
                             IN  /\ entry.records
                                        = JList(ExpectedRecords(students, events))
                                 /\ entry.present_count.v = CountOf(events, "PRESENT")
                                 /\ entry.absent_count.v = CountOf(events, "ABSENT")
      ]_vars

\* PRESENT then ABSENT completed a session on class c1.
C6_Witness ==
    /\ last = [op |-> "button", event |-> "ABSENT", state |-> "ATTENDANCE_TAKING",
               raised |-> FALSE]
    /\ current_state = "CLASS_SELECTION"
    /\ attendance_session = None
    /\ "c1" \in DOMAIN attendance_data
    /\ attendance_data["c1"].v.records.v[1].v.present = JBool(TRUE)
    /\ attendance_data["c1"].v.records.v[2].v.present = JBool(FALSE)
    /\ attendance_data["c1"].v.present_count.v = 1
    /\ attendance_data["c1"].v.absent_count.v = 1

SelectOnTakenClass ==
    /\ last'.op = "button"
    /\ last'.state = "CLASS_SELECTION"
    /\ last'.event = "SELECT"
    /\ selected_class_index < Len(classes_data.v)
    /\ classes_data.v[selected_class_index + 1].v.id.v \in DOMAIN attendance_data

\* C7: in CLASS_SELECTION, SELECT on a class whose id is a key of the attendance
\* table leaves the state CLASS_SELECTION, creates no session and leaves the
\* table unchanged; and the event that completes a session leaves the class's
\* id a key of the table, in CLASS_SELECTION, so that the next SELECT on that
\* class is such a SELECT.
C7_SelectOnTakenClassIsBlocked ==
    [][ /\ SelectOnTakenClass
           => /\ current_state' = "CLASS_SELECTION"
              /\ attendance_session' = None
              /\ attendance_data' = attendance_data
        /\ (MarkStep /\ attendance_session' = None)
           => /\ current_state' = "CLASS_SELECTION"
              /\ attendance_session.class_id \in DOMAIN attendance_data'
      ]_vars

\* SELECT was pressed in CLASS_SELECTION on a class whose attendance is saved,
\* in memory and in the file.
C7_Witness ==
    /\ last = [op |-> "button", event |-> "SELECT", state |-> "CLASS_SELECTION",
               raised |-> FALSE]
    /\ current_state = "CLASS_SELECTION"
    /\ attendance_session = None
    /\ selected_class_index < Len(classes_data.v)
    /\ classes_data.v[selected_class_index + 1].v.id.v \in DOMAIN attendance_data
    /\ attendance_file = JsonDump(attendance_data)

\* C10: a disconnect leaves the current state, the selected class index, the
\* current student index, the session, the in-memory roster and attendance
\* table and both files unchanged.
C10_DisconnectLeavesSessionAndStore ==
    [][ last'.op = "disconnect"
            => UNCHANGED <<current_state, selected_class_index, current_student_index,
                           attendance_session, classes_data, attendance_data,
                           classes_file, attendance_file>>
      ]_vars

\* The central disconnected while a session with one student marked was open.
C10_Witness ==
    /\ last.op = "disconnect"
    /\ ~connected
    /\ current_state = "ATTENDANCE_TAKING"
    /\ attendance_session # None
    /\ Len(attendance_session.records) = 1

(***************************************************************************)
(* Properties of the link, of the reassembly and of the dispatch           *)
(***************************************************************************)
\* C11: when the peer had written only a part of its message, without the
\* newline, on the connection before this one, then nothing of the message has
\* been handed on while it writes the message again from the first byte, and
\* once it has written all of it exactly the message has been handed on, once.
C11_ResentMessageIsDelivered ==
    (/\ last.op = "link_write"
     /\ last.dropped \in 1..(Len(rx_whole) - 1))
        => IF rx_pos < Len(rx_whole)
           THEN delivered = <<>>
           ELSE delivered = <<SubSeq(rx_whole, 1, Len(rx_whole) - 1)>>

\* The peer had written the first ten bytes of {"command":"get_status"} when
\* the link dropped; it has now written the whole message again, some slice
\* ending inside the buffer, and the message has been handed on.
C11_Witness ==
    /\ last.op = "link_write"
    /\ last.dropped = 10
    /\ rx_whole = Terminated(TextGetStatus)
    /\ rx_pos = Len(rx_whole)
    /\ connected
    /\ delivered = <<TextGetStatus>>
    /\ rx_buffers[ClassDataHandle] = <<>>

\* the segments of a text that end in a newline, in order, without the newline
RECURSIVE TerminatedSegments(_)
TerminatedSegments(text) ==
    IF \A i \in 1..Len(text) : text[i] # Newline THEN <<>>
    ELSE LET k == CHOOSE i \in 1..Len(text) :
                    text[i] = Newline /\ \A j \in 1..(i - 1) : text[j] # Newline
         IN  <<SubSeq(text, 1, k - 1)>>
                \o TerminatedSegments(SubSeq(text, k + 1, Len(text)))

\* a text without the whitespace at its ends
RECURSIVE Trimmed(_)
Trimmed(text) ==
    IF text = <<>> THEN text
    ELSE IF Head(text) \in Whitespace THEN Trimmed(Tail(text))
    ELSE IF text[Len(text)] \in Whitespace
    THEN Trimmed(SubSeq(text, 1, Len(text) - 1))
    ELSE text

\* the segments that are messages: not empty once trimmed
MessagesOf(text) ==
    SelectSeq([i \in 1..Len(TerminatedSegments(text)) |->
                    Trimmed(TerminatedSegments(text)[i])],
              LAMBDA m : m # <<>>)

IsPrefix(a, b) == Len(a) <= Len(b) /\ SubSeq(b, 1, Len(a)) = a

\* C12 as stated: once the peer has written all of its text, as many messages
\* have been handed on as the text has segments that end in a newline.
C12_EverySegmentDispatchedOnce ==
    (last.op = "write_slice" /\ rx_pos = Len(rx_whole))
        => Len(delivered) = Len(TerminatedSegments(rx_whole))

\* C12: the messages handed on are at every moment the first of the text's
\* newline-terminated segments that are not blank, each once, trimmed and in
\* the order of the text, and they are all of them once the peer has written
\* all of its text, in whatever slices.
C12_MessagesInOrderOnce ==
    last.op = "write_slice"
        => /\ IsPrefix(delivered, MessagesOf(rx_whole))
           /\ rx_pos = Len(rx_whole) => delivered = MessagesOf(rx_whole)

\* "a", newline, U+00E9, newline was written, one slice ending inside U+00E9,
\* and the two messages have been handed on in that order.
C12_Witness ==
    /\ last.op = "write_slice"
    /\ last.cut
    /\ rx_whole = <<97, 10, 195, 169, 10>>
    /\ rx_pos = Len(rx_whole)
    /\ delivered = << <<97>>, <<195, 169>> >>

\* C13: a connect event that arrives while a central is connected leaves the
\* stored connection handle that of the connected central.
C13_SecondConnectIsRejected ==
    [][ (last'.op = "connect" /\ connected) => conn_handle' = conn_handle ]_vars

\* the notifications that carry {status: "error", message} on a characteristic
ErrorResponses(notified, value_handle) ==
    {j \in 1..Len(notified) :
        /\ notified[j].handle = value_handle
        /\ DOMAIN notified[j].response = {"status", "message"}
        /\ notified[j].response.status = "error"}

\* C14: every message of a write by a connected peer that is not valid JSON is answered with a
\* notification of {status: "error", message} on the characteristic it was
\* written to.
C14_InvalidJsonIsAnswered ==
    [][ (last'.op = "write" /\ connected)
            => \A i \in 1..Len(last'.dispatched) :
                 ~json_loads(last'.dispatched[i].message).ok
                    => ErrorResponses(last'.dispatched[i].notified,
                                      last'.handle) # {}
      ]_vars

KnownCommands ==
    {JStr("clear_attendance"), JStr("clear_all_attendance"), JStr("get_status")}

\* a JSON object whose command field is missing or names no known command
IsUnknownCommand(message) ==
    /\ json_loads(message).ok
    /\ IsInstanceDict(json_loads(message).value)
    /\ ("command" \in DOMAIN json_loads(message).value.v
            => json_loads(message).value.v.command \notin KnownCommands)

\* C15: a message on the command characteristic that is a JSON object without
\* a command field, or with one that names no known command, is answered with
\* one notification of {status: "error", message: "Unknown command"} on that
\* characteristic; a write of such messages only changes neither the roster,
\* the attendance table, the files nor the session and its state.
C15_UnknownCommandIsRefused ==
    [][ (last'.op = "write" /\ last'.handle = CommandHandle)
            => /\ \A i \in 1..Len(last'.dispatched) :
                    IsUnknownCommand(last'.dispatched[i].message)
                        => last'.dispatched[i].notified =
                            <<[handle |-> CommandHandle,
                               response |-> [status |-> "error",
                                             message |-> "Unknown command"]]>>
               /\ (\A i \in 1..Len(last'.dispatched) :
                        IsUnknownCommand(last'.dispatched[i].message))
                    => UNCHANGED <<store_vars, ui_vars>>
      ]_vars

\* {"command":"reboot"} was written while a session with one student marked
\* was open, and was answered with "Unknown command".
C15_Witness ==
    /\ last.op = "write"
    /\ last.handle = CommandHandle
    /\ last.dispatched =
        <<[message |-> TextUnknownCommand,
           notified |-> <<[handle |-> CommandHandle,
                           response |-> [status |-> "error",
                                         message |-> "Unknown command"]]>>]>>
    /\ current_state = "ATTENDANCE_TAKING"
    /\ attendance_session # None
    /\ Len(attendance_session.records) = 1

\* a step of a button handler that returned
ButtonStep(state, events) ==
    /\ last'.op = "button"
    /\ last'.state = state
    /\ last'.event \in events
    /\ ~last'.raised

\* a step that starts the program: the device is switched on again, or run()
\* ends in reset() after an exception
StartUpStep ==
    \/ last'.op = "restart"
    \/ last'.op = "button" /\ last'.raised

\* C16: in every step other than a start-up, the state becomes MAIN_MENU only
\* by BACK pressed in CLASS_SELECTION, becomes ATTENDANCE_TAKING only by SELECT
\* pressed in CLASS_SELECTION, and stops being ATTENDANCE_TAKING only by
\* becoming CLASS_SELECTION, on BACK or on the mark of the last student.
C16_OnlyListedTransitions ==
    [][ ~StartUpStep =>
          /\ (current_state' = "MAIN_MENU" /\ current_state # "MAIN_MENU")
                => ButtonStep("CLASS_SELECTION", {"BACK"})
          /\ (current_state' = "ATTENDANCE_TAKING"
                    /\ current_state # "ATTENDANCE_TAKING")
                => ButtonStep("CLASS_SELECTION", {"SELECT"})
          /\ (current_state = "ATTENDANCE_TAKING"
                    /\ current_state' # "ATTENDANCE_TAKING")
                => /\ current_state' = "CLASS_SELECTION"
                   /\ \/ ButtonStep("ATTENDANCE_TAKING", {"BACK"})
                      \/ /\ ButtonStep("ATTENDANCE_TAKING", {"PRESENT", "ABSENT"})
                         /\ current_student_index + 1
                                >= Len(attendance_session.students)
      ]_vars

\* BACK ended a session that had one mark, and the state is CLASS_SELECTION.
C16_Witness ==
    /\ last = [op |-> "button", event |-> "BACK", state |-> "ATTENDANCE_TAKING",
               raised |-> FALSE]
    /\ current_state = "CLASS_SELECTION"
    /\ current_student_index = 1

\* the buttons that the transition table does not list for a state
Unlisted ==
    [MAIN_MENU |-> {"UP", "DOWN", "BACK", "PRESENT", "ABSENT"},
     CLASS_SELECTION |-> {"PRESENT", "ABSENT"},
     ATTENDANCE_TAKING |-> {"UP", "DOWN", "SELECT"}]

\* C17: a button that is not listed for the current state raises no error and
\* leaves the state, the selected class index, the current student index, the
\* session, the roster, the attendance table and both files unchanged.
C17_UnlistedButtonChangesNothing ==
    [][ (last'.op = "button" /\ last'.event \in Unlisted[last'.state])
            => /\ ~last'.raised
               /\ UNCHANGED <<current_state, selected_class_index,
                              current_student_index, attendance_session,
                              classes_data, attendance_data, classes_file,
                              attendance_file>>
      ]_vars

\* UP was pressed while a session with one student marked was open, and the
\* session is still open.
C17_Witness ==
    /\ last = [op |-> "button", event |-> "UP", state |-> "ATTENDANCE_TAKING",
               raised |-> FALSE]
    /\ current_state = "ATTENDANCE_TAKING"
    /\ attendance_session # None
    /\ Len(attendance_session.records) = 1

\* C18: SELECT in MAIN_MENU with a non-empty roster in memory moves to
\* CLASS_SELECTION with the selected class index 0; with an empty roster it
\* leaves the state MAIN_MENU and the selected class index, the session, the
\* roster, the attendance table and both files unchanged.
C18_SelectInMainMenu ==
    [][ ButtonStep("MAIN_MENU", {"SELECT"})
            => IF Len(classes_data.v) > 0
               THEN /\ current_state' = "CLASS_SELECTION"
                    /\ selected_class_index' = 0
               ELSE /\ current_state' = "MAIN_MENU"
                    /\ UNCHANGED <<selected_class_index, attendance_session,
                                   classes_data, attendance_data, classes_file,
                                   attendance_file>>
      ]_vars

\* SELECT was pressed in MAIN_MENU while the roster was empty and the selected
\* class index, left over from an earlier visit of the class list, was 1.
C18_Witness ==
    /\ last = [op |-> "button", event |-> "SELECT", state |-> "MAIN_MENU",
               raised |-> FALSE]
    /\ current_state = "MAIN_MENU"
    /\ classes_data.v = <<>>
    /\ selected_class_index = 1

\* C19: in CLASS_SELECTION with n >= 1 classes and the selected class index i
\* in 0..n-1, UP gives n-1 when i = 0 and i-1 otherwise, DOWN gives 0 when
\* i = n-1 and i+1 otherwise, and the state stays CLASS_SELECTION.
C19_SelectionWraps ==
    [][ (/\ last'.op = "button"
         /\ last'.state = "CLASS_SELECTION"
         /\ last'.event \in {"UP", "DOWN"}
         /\ Len(classes_data.v) >= 1
         /\ selected_class_index \in 0..(Len(classes_data.v) - 1))
            => LET n == Len(classes_data.v)
                   i == selected_class_index
               IN  /\ ~last'.raised
                   /\ current_state' = "CLASS_SELECTION"
                   /\ selected_class_index' =
                        IF last'.event = "UP"
                        THEN (IF i = 0 THEN n - 1 ELSE i - 1)
                        ELSE (IF i = n - 1 THEN 0 ELSE i + 1)
      ]_vars

\* UP was pressed with three classes and left the index at 2: it was pressed
\* at index 0.
C19_Witness ==
    /\ last = [op |-> "button", event |-> "UP", state |-> "CLASS_SELECTION",
               raised |-> FALSE]
    /\ Len(classes_data.v) = 3
    /\ selected_class_index = 2

\* C20: BACK in ATTENDANCE_TAKING with a session open moves to CLASS_SELECTION,
\* leaves no session and leaves the attendance table and its file unchanged,
\* so that the session's class is still not a key of the table.
C20_BackDiscardsSession ==
    [][ (ButtonStep("ATTENDANCE_TAKING", {"BACK"}) /\ attendance_session # None)
            => /\ current_state' = "CLASS_SELECTION"
               /\ attendance_session' = None
               /\ UNCHANGED <<attendance_data, attendance_file>>
               /\ attendance_session.class_id \notin DOMAIN attendance_data'
      ]_vars

\* BACK was pressed after one of the two students of c1 had been marked, and
\* c1 has no entry in the table or in the file.
C20_Witness ==
    /\ last = [op |-> "button", event |-> "BACK", state |-> "ATTENDANCE_TAKING",
               raised |-> FALSE]
    /\ current_state = "CLASS_SELECTION"
    /\ attendance_session = None
    /\ current_student_index = 1
    /\ selected_class_index < Len(classes_data.v)
    /\ classes_data.v[selected_class_index + 1] = Class1
    /\ "c1" \notin DOMAIN attendance_data
    /\ attendance_file \in {FileAbsent, JsonDump(attendance_data)}

(***************************************************************************)
(* Properties of the chunking, of the buffers and of the responses         *)
(***************************************************************************)
RECURSIVE Concatenated(_)
Concatenated(chunks) ==
    IF chunks = <<>> THEN <<>> ELSE Head(chunks) \o Concatenated(Tail(chunks))

\* C21: the chunks _send_chunked_response hands to gatts_write, put together
\* in the order they are sent, are the payload followed by one newline, for
\* every payload, one that fits in a single chunk included.
C21_ChunksArePayloadAndNewline ==
    last.op = "send_chunked_response"
        => Concatenated(tx_chunks) = Append(tx_payload, Newline)

\* C22: after a connect event and after a disconnect event no reassembly
\* buffer holds a byte, whatever the buffers held before the event.
C22_BuffersEmptyAfterLinkEvent ==
    [][ last'.op \in {"connect", "disconnect"}
            => \A value_handle \in WritableHandles :
                    BufferOf(rx_buffers', value_handle) = <<>>
      ]_vars

\* A central disconnected while the first twenty bytes of a roster waited in
\* the buffer of the class-data characteristic; the buffers are empty.
C22_Witness ==
    /\ last.op = "disconnect"
    /\ last.pending = PeerWriteSize
    /\ ~connected
    /\ rx_buffers = EmptyDict

\* the bytes end inside a UTF-8 sequence: one of the last three bytes leads a
\* sequence that is longer than what follows it
EndsInsideCodepoint(bs) ==
    \E k \in 1..3 :
        /\ k <= Len(bs)
        /\ bs[Len(bs) - k + 1] >= 192
        /\ SequenceLength(bs[Len(bs) - k + 1]) > k
        /\ \A j \in (Len(bs) - k + 2)..Len(bs) : IsContinuation(bs[j])

\* C23: a write that leaves the buffer ending inside a multi-byte character
\* hands on no message and leaves in the buffer what was there followed by the
\* bytes written; and once the peer has written the rest of its text, every
\* message of the text has been handed on.
C23_SplitCodepointKeepsBuffer ==
    [][ last'.op = "write_slice"
            => LET before == BufferOf(rx_buffers, ClassDataHandle)
                   written == SubSeq(rx_whole, rx_pos + 1, rx_pos')
               IN  /\ EndsInsideCodepoint(before \o written)
                        => /\ delivered' = delivered
                           /\ rx_buffers'[ClassDataHandle] = before \o written
                   /\ (last'.cut /\ rx_pos' = Len(rx_whole))
                        => delivered' = MessagesOf(rx_whole)
      ]_vars

\* "a", U+20AC, newline was written in three writes, the first ending after
\* the first byte of U+20AC and the second after its second byte, and the
\* message has been handed on.
C23_Witness ==
    /\ last.op = "write_slice"
    /\ last.cut
    /\ rx_whole = <<97, 226, 130, 172, 10>>
    /\ rx_pos = Len(rx_whole)
    /\ delivered = << <<97, 226, 130, 172>> >>
    /\ rx_buffers[ClassDataHandle] = <<>>

\* C24: a clear_attendance command for class c1 is answered with one
\* notification that carries the command and the class id; its status is
\* "success" exactly when the table had an entry for c1, the table afterwards
\* is the table without that entry and the file holds that table; when the
\* table has no entry for c1 the status is "error" and table and file are as
\* they were.
C24_ClearAttendanceResponse ==
    [][ (last'.op = "write" /\ last'.handle = CommandHandle)
            => \A i \in 1..Len(last'.dispatched) :
                 last'.dispatched[i].message = TextClearAttendance
                    => LET notified == last'.dispatched[i].notified
                           without == [k \in DOMAIN attendance_data \ {"c1"} |->
                                            attendance_data[k]]
                       IN  /\ Len(notified) = 1
                           /\ notified[1].handle = CommandHandle
                           /\ DOMAIN notified[1].response =
                                    {"status", "command", "class_id"}
                           /\ notified[1].response.command = "clear_attendance"
                           /\ notified[1].response.class_id = JStr("c1")
                           /\ notified[1].response.status \in {"success", "error"}
                           /\ notified[1].response.status = "success"
                                <=> /\ "c1" \in DOMAIN attendance_data
                                    /\ attendance_data' = without
                                    /\ attendance_file' = JsonDump(without)
                           /\ "c1" \notin DOMAIN attendance_data
                                => /\ notified[1].response.status = "error"
                                   /\ attendance_data' = attendance_data
                                   /\ attendance_file' = attendance_file
      ]_vars

\* The attendance of c1 was cleared by a command: the answer says success, the
\* table has no entry for c1 and the file holds the table.
C24_Witness ==
    /\ last.op = "write"
    /\ last.handle = CommandHandle
    /\ last.dispatched =
        <<[message |-> TextClearAttendance,
           notified |-> <<[handle |-> CommandHandle,
                           response |-> [status |-> "success",
                                         command |-> "clear_attendance",
                                         class_id |-> JStr("c1")]]>>]>>
    /\ "c1" \notin DOMAIN attendance_data
    /\ attendance_file = JsonDump(attendance_data)

\* C25: a message on the class-data characteristic that is valid JSON is
\* answered with one {status, message} notification on that characteristic.
\* The status is "success" exactly when the payload is a well-formed roster
\* and the write of the file did not fail; then the roster in memory and the
\* file hold the payload.  Otherwise it is "error" and the roster in memory is
\* as it was; a payload that is not an array is such a case.
C25_RosterSyncResponse ==
    [][ (last'.op = "write" /\ last'.handle = ClassDataHandle /\ connected)
            => \A i \in 1..Len(last'.dispatched) :
                 json_loads(last'.dispatched[i].message).ok
                    => LET notified == last'.dispatched[i].notified
                           payload == json_loads(last'.dispatched[i].message).value
                       IN  /\ Len(notified) = 1
                           /\ notified[1].handle = ClassDataHandle
                           /\ DOMAIN notified[1].response = {"status", "message"}
                           /\ notified[1].response.status \in {"success", "error"}
                           /\ notified[1].response.status = "success"
                                <=> (WellFormedRoster(payload) /\ faults' = faults)
                           /\ notified[1].response.status = "success"
                                => /\ classes_data' = payload
                                   /\ classes_file' = JsonDump(payload)
                           /\ notified[1].response.status = "error"
                                => classes_data' = classes_data
      ]_vars

\* {} was written to the class-data characteristic of a device that holds a
\* roster and was answered with one error; the roster is as it was.
C25_Witness ==
    /\ last.op = "write"
    /\ last.handle = ClassDataHandle
    /\ last.dispatched =
        <<[message |-> TextEmptyObject,
           notified |-> <<[handle |-> ClassDataHandle,
                           response |-> [status |-> "error",
                                         message |-> "Failed to save data"]]>>]>>
    /\ classes_data \in SavedRosters
    /\ classes_file = JsonDump(classes_data)

(***************************************************************************)
(* Properties of the session and of what it saves                          *)
(***************************************************************************)
\* C26: in every reachable state there is an attendance session exactly when
\* the state is ATTENDANCE_TAKING; after a completion whose save failed as
\* well, where the session is gone and the state is CLASS_SELECTION.
C26_SessionIffAttendanceTaking ==
    (attendance_session # None) <=> (current_state = "ATTENDANCE_TAKING")

\* The last student of c1 was marked and the write of the attendance file
\* failed after the file had been truncated: the session is gone and the
\* state is CLASS_SELECTION.
C26_Witness ==
    /\ last.op = "button"
    /\ last.event \in {"PRESENT", "ABSENT"}
    /\ last.state = "ATTENDANCE_TAKING"
    /\ ~last.raised
    /\ faults = 1
    /\ attendance_file = FileCorrupt
    /\ "c1" \in DOMAIN attendance_data
    /\ attendance_session = None
    /\ current_state = "CLASS_SELECTION"

\* the table a file holds
TableIn(file) == IF file.kind = "json" THEN file.doc ELSE EmptyDict

\* the class ids whose entry in a table is not their entry in another
EntriesNotIn(table, other) ==
    {c \in DOMAIN table : c \notin DOMAIN other \/ table[c] # other[c]}

\* the step marks the last student of the session
CompletionStep ==
    /\ last'.op = "button"
    /\ last'.event \in {"PRESENT", "ABSENT"}
    /\ ~last'.raised
    /\ attendance_session # None
    /\ current_student_index + 1 = Len(attendance_session.students)

\* the entry holds the records of the session and, last, a record of the
\* student marked in this step: one record for every student
IsCompletedEntry(entry, c) ==
    /\ CompletionStep
    /\ c = attendance_session.class_id
    /\ Len(entry.v.records.v) = Len(attendance_session.students)
    /\ SubSeq(entry.v.records.v, 1, Len(attendance_session.records))
            = attendance_session.records

\* C28: an entry that a step puts into the attendance table, in memory or in
\* the file, is either an entry that the table in memory or in the file held
\* before the step, or it is written by the step that marks the last student
\* of the session and holds a record for every student of the session.  No
\* other step, a BACK and a restart among them, adds an entry.
C28_RecordsSavedOnlyAtCompletion ==
    [][ /\ \A c \in EntriesNotIn(attendance_data', attendance_data) :
            \/ /\ c \in DOMAIN TableIn(attendance_file)
               /\ attendance_data'[c] = TableIn(attendance_file)[c]
            \/ IsCompletedEntry(attendance_data'[c], c)
        /\ \A c \in EntriesNotIn(TableIn(attendance_file'), TableIn(attendance_file)) :
            \/ /\ c \in DOMAIN attendance_data
               /\ TableIn(attendance_file')[c] = attendance_data[c]
            \/ IsCompletedEntry(TableIn(attendance_file')[c], c)
      ]_vars

\* Both students of c1 were marked present, the second just now: table and
\* file hold the entry with its two records.
C28_Witness ==
    /\ last = [op |-> "button", event |-> "PRESENT", state |-> "ATTENDANCE_TAKING",
               raised |-> FALSE]
    /\ current_state = "CLASS_SELECTION"
    /\ "c1" \in DOMAIN attendance_data
    /\ Len(attendance_data["c1"].v.records.v) = 2
    /\ attendance_data["c1"].v.present_count.v = 2
    /\ attendance_file = JsonDump(attendance_data)

\* C27: a save_classes call whose candidate is a well-formed roster and that
\* returns failure, which it does when the write of the file fails, leaves the
\* roster in memory and the roster file as they were.
C27_FailedRosterWriteChangesNothing ==
    [][ (last'.op = "save_classes" /\ WellFormedRoster(last'.arg) /\ ~last'.ok)
            => /\ classes_data' = classes_data
               /\ classes_file' = classes_file
      ]_vars

\* C29: an import whose roster was saved and whose write of the attendance
\* file failed returns failure and leaves the roster and the attendance table
\* in memory as they were before the import, while the roster file holds the
\* imported roster.
C29_FailedImportRestoresMemoryOnly ==
    [][ (/\ last'.op = "import_data"
         /\ last'.arg.t = "dict"
         /\ {"classes", "attendance"} \subseteq DOMAIN last'.arg.v
         /\ WellFormedRoster(last'.arg.v.classes)
         /\ last'.writes[1] = "ok"
         /\ last'.writes[2] # "ok")
            => /\ ~last'.ok
               /\ classes_data' = classes_data
               /\ attendance_data' = attendance_data
               /\ classes_file' = JsonDump(last'.arg.v.classes)
      ]_vars

\* An import of a roster of three classes failed at the attendance file: the
\* roster file holds the three classes, the roster in memory does not, and
\* the attendance table in memory is not the imported one.
C29_Witness ==
    /\ last.op = "import_data"
    /\ ~last.ok
    /\ last.writes[1] = "ok"
    /\ last.writes[2] # "ok"
    /\ last.arg.v.classes = Roster3
    /\ classes_file = JsonDump(Roster3)
    /\ classes_data # Roster3
    /\ attendance_data # last.arg.v.attendance.v

\* C30: whenever the state is CLASS_SELECTION the roster in memory is not
\* empty and the selected index addresses one of its classes.
C30_SelectionAddressesAClass ==
    current_state = "CLASS_SELECTION"
        => /\ Len(classes_data.v) > 0
           /\ selected_class_index \in 0..(Len(classes_data.v) - 1)

\* C31: whenever the state is ATTENDANCE_TAKING the session has a student at
\* the current index, in a session on a class without students as well.
C31_StudentIndexInRange ==
    current_state = "ATTENDANCE_TAKING"
        => /\ attendance_session # None
           /\ current_student_index < Len(attendance_session.students)

\* C32: a save_attendance call that returns failure leaves the attendance
\* table in memory as it was before the call.
C32_FailedSaveLeavesTable ==
    [][ (last'.op = "save_attendance" /\ ~last'.ok)
            => attendance_data' = attendance_data
      ]_vars

\* C33: a save_attendance call for a class leaves the entry of every other
\* class in the table in memory as it was: none is added, removed or changed.
C33_SaveTouchesOneEntry ==
    [][ last'.op = "save_attendance"
            => \A c \in (DOMAIN attendance_data \cup DOMAIN attendance_data')
                            \ {last'.class_id} :
                    /\ c \in DOMAIN attendance_data
                    /\ c \in DOMAIN attendance_data'
                    /\ attendance_data'[c] = attendance_data[c]
      ]_vars

\* C34: no chunk that _send_chunked_response hands to gatts_write is longer
\* than chunk_size, the last one with its newline included.
C34_ChunksFitChunkSize ==
    last.op = "send_chunked_response"
        => \A i \in 1..Len(tx_chunks) : Len(tx_chunks[i]) <= chunk_size

\* C35: once the peer has written the newline of its message, the message
\* has been handed on, whatever line it wrote before the message.
C35_MessageAfterNoiseIsDelivered ==
    (last.op = "write_slice" /\ rx_pos = Len(rx_whole))
        => /\ delivered # <<>>
           /\ Terminated(delivered[Len(delivered)]) \in NoiseMessages

MarkPressed ==
    /\ last'.op = "button"
    /\ last'.event \in {"PRESENT", "ABSENT"}
    /\ last'.state = "ATTENDANCE_TAKING"
    /\ attendance_session # None

\* the records name the students, one record each and in their order
RecordsName(records, students) ==
    /\ Len(records) = Len(students)
    /\ \A i \in 1..Len(students) :
            /\ records[i].v.roll = students[i].v.roll
            /\ records[i].v.name = students[i].v.name

\* C38: no step, a write of the peer among them, changes the class or the
\* student list of a session that it leaves open.  A mark is refused exactly
\* when the session has a record for each of its students already; a mark
\* that is taken ends the session exactly when it is the mark of the last
\* student of the list, and the entry it puts into the table names the
\* students of the list, whatever the roster holds by then.
C38_SessionKeepsItsStudents ==
    [][ /\ (attendance_session # None /\ attendance_session' # None)
            => /\ attendance_session'.students = attendance_session.students
               /\ attendance_session'.class_id = attendance_session.class_id
        /\ (attendance_session # None /\ last'.op = "write")
            => attendance_session' = attendance_session
        /\ MarkPressed
            => LET students == attendance_session.students
                   taken == Len(attendance_session.records)
               IN  /\ last'.raised <=> taken >= Len(students)
                   /\ ~last'.raised
                        => /\ attendance_session' = None <=> taken + 1 = Len(students)
                           /\ attendance_session' = None
                                => /\ attendance_session.class_id
                                            \in DOMAIN attendance_data'
                                   /\ RecordsName(
                                        attendance_data'[attendance_session.class_id]
                                            .v.records.v, students)
      ]_vars

\* The session on c1 was opened with students A and B, a sync then emptied
\* the roster, and the second mark has just saved a record for A and for B.
C38_Witness ==
    /\ last = [op |-> "button", event |-> "ABSENT", state |-> "ATTENDANCE_TAKING",
               raised |-> FALSE]
    /\ attendance_session = None
    /\ classes_data = Roster0
    /\ "c1" \in DOMAIN attendance_data
    /\ RecordsName(attendance_data["c1"].v.records.v, <<StudentA, StudentB>>)

\* the last message that the write handed on is text and its one answer has
\* status "success"
ClearedBy(text) ==
    /\ last'.op = "write"
    /\ last'.handle = CommandHandle
    /\ last'.dispatched # <<>>
    /\ LET d == last'.dispatched[Len(last'.dispatched)] IN
            /\ d.message = text
            /\ Len(d.notified) = 1
            /\ d.notified[1].response.status = "success"

\* C39: a clear_attendance command for c1 that is answered with "success"
\* leaves table and file without an entry for c1, and a clear_all_attendance
\* command that is answered with "success" leaves them empty; a SELECT on a
\* class that has no entry in the table opens a session for that class, with
\* no record yet and the first student current.
C39_ClearedClassCanBeTakenAgain ==
    [][ /\ ClearedBy(TextClearAttendance)
            => /\ "c1" \notin DOMAIN attendance_data'
               /\ "c1" \notin DOMAIN load_attendance(attendance_file')
        /\ ClearedBy(TextClearAll)
            => /\ DOMAIN attendance_data' = {}
               /\ DOMAIN load_attendance(attendance_file') = {}
        /\ ( /\ last'.op = "button"
             /\ last'.event = "SELECT"
             /\ last'.state = "CLASS_SELECTION"
             /\ selected_class_index < Len(classes_data.v)
             /\ classes_data.v[selected_class_index + 1].v.id.v
                    \notin DOMAIN attendance_data )
            => /\ ~last'.raised
               /\ current_state' = "ATTENDANCE_TAKING"
               /\ attendance_session' # None
               /\ attendance_session'.class_id =
                        classes_data.v[selected_class_index + 1].v.id.v
               /\ attendance_session'.records = <<>>
               /\ current_student_index' = 0
      ]_vars

\* A clear command has emptied table and file, and SELECT has just opened a
\* session on c1.
C39_Witness ==
    /\ last = [op |-> "button", event |-> "SELECT", state |-> "CLASS_SELECTION",
               raised |-> FALSE]
    /\ current_state = "ATTENDANCE_TAKING"
    /\ attendance_session # None
    /\ attendance_session.class_id = "c1"
    /\ attendance_file = JsonDump(EmptyDict)
    /\ DOMAIN attendance_data = {}

\* the state that a press of BACK leads to
AfterBack(state) ==
    IF state = "ATTENDANCE_TAKING" THEN "CLASS_SELECTION" ELSE "MAIN_MENU"

\* C40: the machine is always in one of its three states, with a session to
\* cancel whenever it is in ATTENDANCE_TAKING, and a press of BACK is never
\* refused and never raises: from ATTENDANCE_TAKING it leads to
\* CLASS_SELECTION, from CLASS_SELECTION to MAIN_MENU, and in MAIN_MENU it
\* changes nothing, so two presses of BACK at most lead to MAIN_MENU.
C40_BackLeadsToMainMenu ==
    /\ [](/\ current_state \in {"MAIN_MENU", "CLASS_SELECTION", "ATTENDANCE_TAKING"}
          /\ current_state = "ATTENDANCE_TAKING" => attendance_session # None
          /\ pc = "idle")
    /\ [][ (last'.op = "button" /\ last'.event = "BACK")
                => /\ ~last'.raised
                   /\ last'.state = current_state
                   /\ current_state' = AfterBack(current_state)
                   /\ AfterBack(current_state') = "MAIN_MENU" ]_vars

\* BACK was pressed in CLASS_SELECTION, where the second student of a class
\* had been current before the first BACK, and the machine is in MAIN_MENU.
C40_Witness ==
    /\ last = [op |-> "button", event |-> "BACK", state |-> "CLASS_SELECTION",
               raised |-> FALSE]
    /\ current_state = "MAIN_MENU"
    /\ current_student_index = 1
    /\ attendance_session = None

\* C37: while no storage write has failed, the roster file holds the roster
\* in memory and the attendance file holds the table in memory: a restart
\* would load what memory holds.
C37_FilesHoldTheState ==
    faults = 0
        => /\ load_classes(classes_file) = classes_data
           /\ load_attendance(attendance_file) = attendance_data

(***************************************************************************)
(* The two execution contexts.  The BLE stack calls _irq_handler whenever   *)
(* an event arrives; the main loop is then wherever it happens to be.  The  *)
(* handler of the last student's mark is taken apart at the statements of   *)
(* save_attendance that read or write self.attendance_data and the file;    *)
(* pc tells which of them the main loop executes next.                      *)
(***************************************************************************)
MainLoopAt(label) == last' = [op |-> "main_loop", at |-> label]

\* mark_student up to the call of save_attendance, and save_attendance up to
\* the validation of the records
MarkStudentBegin ==
    /\ pc = "idle"
    /\ current_state = "ATTENDANCE_TAKING"
    /\ attendance_session # None
    /\ \E event \in {"PRESENT", "ABSENT"} :
        LET students == attendance_session.students IN
        IF current_student_index >= Len(students)
        THEN Crash(event)           \* IndexError
        ELSE LET record == MarkRecord(students[current_student_index + 1],
                                      event = "PRESENT")
                 records == Append(attendance_session.records, record)
                 valid == \A i \in 1..Len(records) :
                            _validate_attendance_record(records[i])
             IN
             /\ current_student_index' = current_student_index + 1
             /\ marks' = Append(marks, event)
             /\ Handled(event)
             /\ IF current_student_index + 1 >= Len(students) /\ ~valid
                THEN /\ attendance_session' = None
                     /\ current_state' = "CLASS_SELECTION"
                ELSE /\ attendance_session' =
                            [attendance_session EXCEPT !.records = records]
                     /\ UNCHANGED current_state
             /\ pc' = IF current_student_index + 1 >= Len(students) /\ valid
                      THEN "load_attendance" ELSE "idle"
             /\ UNCHANGED <<store_vars, selected_class_index, ble_vars, codec_vars,
                            faults>>

\* save_attendance: self.load_attendance()
SaveAttendanceLoad ==
    /\ pc = "load_attendance"
    /\ attendance_data' = load_attendance(attendance_file)
    /\ pc' = "set_entry"
    /\ MainLoopAt("load_attendance")
    /\ UNCHANGED <<classes_data, classes_file, attendance_file, ui_vars, ble_vars,
                   codec_vars, faults>>

\* save_attendance: self.attendance_data[class_id] = {...}
SaveAttendanceSet ==
    /\ pc = "set_entry"
    /\ \E timestamp \in Ticks :
        attendance_data' =
            DictSet(attendance_data, attendance_session.class_id,
                    AttendanceEntry(attendance_session.class_id,
                                    JList(attendance_session.records), timestamp))
    /\ pc' = "write_file"
    /\ MainLoopAt("set_entry")
    /\ UNCHANGED <<classes_data, classes_file, attendance_file, ui_vars, ble_vars,
                   codec_vars, faults>>

\* save_attendance: json.dump(self.attendance_data, f), and the rest of
\* complete_attendance_session
SaveAttendanceWrite ==
    /\ pc = "write_file"
    /\ \E wr \in WriteOutcomes :
        LET w == WriteFile(attendance_file, attendance_data, wr) IN
        /\ FaultsOf(Raised(w), <<wr>>)
        /\ attendance_file' = w.file
    /\ attendance_session' = None
    /\ current_state' = "CLASS_SELECTION"
    /\ marks' = <<>>
    /\ pc' = "idle"
    /\ MainLoopAt("write_file")
    /\ UNCHANGED <<classes_data, classes_file, attendance_data, selected_class_index,
                   current_student_index, ble_vars, codec_vars>>

NextIrq ==
    \/ MainMenuButtons(Branches.MAIN_MENU)
    \/ ClassSelectionButtons(Branches.CLASS_SELECTION)
    \/ CancelAttendance(Branches.ATTENDANCE_TAKING)
    \/ MarkStudentBegin
    \/ SaveAttendanceLoad
    \/ SaveAttendanceSet
    \/ SaveAttendanceWrite
    \/ CentralConnect(ConnHandles)
    \/ CentralDisconnect
    \/ GattsWrite(SystemWrites)

SpecIrq == Init /\ [][NextIrq]_vars

\* C9: the wireless callback runs a store mutation or a buffer update only
\* while the main loop is between handlers, never while it is part-way through
\* a button handler or a store operation of its own.
C9_CallbackNeverInsideHandler ==
    [][ last'.op = "write" => pc = "idle" ]_vars

====
